---- MODULE Spec2Model ----
(***************************************************************************)
(* Model of the captive-portal login engine in scripts/captive_portal.py:  *)
(* the HTML form scanner (CaptivePortalFormParser), form selection         *)
(* (parse_login_form), the payload builder (merge_form_data), the          *)
(* connectivity probe, the portal fetcher and the login orchestrator       *)
(* (CaptivePortalClient.login), submit_login_form, and of the standalone   *)
(* scripts scripts/bayernwlan.py (its scanner and payload) and             *)
(* scripts/telekom.py (its main() next to the library's login()).          *)
(*                                                                         *)
(* Strings that the code inspects (lower, strip, substring) are sequences  *)
(* of one-character strings.  Tag names and attribute keys are atoms.      *)
(* Optional[str] None is the sequence NoneStr, which no string equals.     *)
(* Optional[int] None is NoIndex.  A Python dict is a TLA+ function.       *)
(***************************************************************************)
EXTENDS Integers, Sequences, FiniteSets, TLC

\* ------------------------------------------------------------------------
\* Bounds of the model
\* ------------------------------------------------------------------------
MaxEvents == 4

MaxInvocations == 2

MaxQuery == 2

\* ------------------------------------------------------------------------
\* Strings
\* ------------------------------------------------------------------------
NoneStr == <<"None">>

NoIndex == -1

EmptyDict == [x \in {} |-> x]

Truthy(s) == s # NoneStr /\ s # <<>>

OrElse(s, default) == IF Truthy(s) THEN s ELSE default

DictGet(d, k) == IF k \in DOMAIN d THEN d[k] ELSE NoneStr

DictSet(d, k, v) == [x \in (DOMAIN d) \cup {k} |-> IF x = k THEN v ELSE d[x]]

Uppers == <<"A","B","C","D","E","F","G","H","I","J","K","L","M",
            "N","O","P","Q","R","S","T","U","V","W","X","Y","Z">>

Lowers == <<"a","b","c","d","e","f","g","h","i","j","k","l","m",
            "n","o","p","q","r","s","t","u","v","w","x","y","z">>

LowerChar(c) ==
  IF \E i \in 1..26 : Uppers[i] = c
  THEN Lowers[CHOOSE i \in 1..26 : Uppers[i] = c]
  ELSE c

Lower(s) == [i \in 1..Len(s) |-> LowerChar(s[i])]

IsSpace(c) == c = " "

RECURSIVE LStrip(_)
LStrip(s) == IF s # <<>> /\ IsSpace(Head(s)) THEN LStrip(Tail(s)) ELSE s

RECURSIVE RStrip(_)
RStrip(s) ==
  IF s # <<>> /\ IsSpace(s[Len(s)]) THEN RStrip(SubSeq(s, 1, Len(s) - 1)) ELSE s

Strip(s) == RStrip(LStrip(s))

Contains(s, sub) ==
  \E i \in 0..(Len(s) - Len(sub)) : SubSeq(s, i + 1, i + Len(sub)) = sub

\* the literals "submit", "button", "post", "get", "?" of the source
TypeSubmit == <<"s","u","b","m","i","t">>

TypeButton == <<"b","u","t","t","o","n">>

\* ------------------------------------------------------------------------
\* CaptivePortalFormParser
\* ------------------------------------------------------------------------
\* attrs_dict = {key: value for key, value in attrs if key}: a later
\* duplicate of a key replaces the earlier one
RECURSIVE AttrsDict(_)
AttrsDict(attrs) ==
  IF attrs = <<>> THEN EmptyDict
  ELSE LET rest == AttrsDict(SubSeq(attrs, 1, Len(attrs) - 1))
           last == attrs[Len(attrs)]
       IN  IF last[1] # "" THEN DictSet(rest, last[1], last[2]) ELSE rest

\* __init__; submit_text is a history field: per form index, the
\* concatenation of every text handed to _mark_submit_match for that form
NewParser(form_id, action_contains, button_text_contains) ==
  [ form_id |-> form_id,
    action_contains |-> action_contains,
    button_text_contains |-> Strip(Lower(OrElse(button_text_contains, <<>>))),
    active_form |-> <<>>,
    active_form_index |-> NoIndex,
    forms |-> <<>>,
    inputs |-> <<>>,
    form_submit_match |-> <<>>,
    capture_button_text_for_form |-> NoIndex,
    form_counter |-> 0,
    submit_text |-> <<>> ]

\* MatchesForm without the test that a rule is configured
MatchesFormUnguarded(p, attrs_dict) ==
  \/ DictGet(attrs_dict, "id") = p.form_id
  \/ /\ Truthy(p.action_contains)
     /\ Contains(OrElse(DictGet(attrs_dict, "action"), <<>>), p.action_contains)

MatchesForm(p, attrs_dict) ==
  IF Truthy(p.form_id) /\ DictGet(attrs_dict, "id") = p.form_id
  THEN TRUE
  ELSE IF Truthy(p.action_contains)
            /\ Contains(OrElse(DictGet(attrs_dict, "action"), <<>>), p.action_contains)
       THEN TRUE
       ELSE FALSE

MarkSubmitMatch(p, text, form_index_arg) ==
  LET form_index == IF form_index_arg = NoIndex THEN p.active_form_index
                    ELSE form_index_arg
      q == IF form_index = NoIndex THEN p
           ELSE [p EXCEPT !.submit_text[form_index + 1] = @ \o text]
  IN  IF ~Truthy(p.button_text_contains) THEN q
      ELSE IF form_index = NoIndex THEN q
      ELSE IF Contains(Lower(text), p.button_text_contains)
           THEN [q EXCEPT !.form_submit_match[form_index + 1] = TRUE]
           ELSE q

\* HandleStartTag keeping the value a name already has (dict.setdefault)
HandleStartTagFirstWins(p, tag, attrs) ==
  LET attrs_dict == AttrsDict(attrs) IN
  IF tag = "form" THEN
    IF MatchesForm(p, attrs_dict)
    THEN [p EXCEPT !.active_form = <<attrs_dict>>,
                   !.active_form_index = p.form_counter,
                   !.forms = Append(@, attrs_dict),
                   !.inputs = Append(@, EmptyDict),
                   !.form_submit_match = Append(@, FALSE),
                   !.submit_text = Append(@, <<>>),
                   !.form_counter = @ + 1]
    ELSE p
  ELSE IF tag = "button" /\ p.active_form # <<>> THEN
    LET button_type == Lower(OrElse(DictGet(attrs_dict, "type"), TypeSubmit)) IN
    IF button_type = TypeSubmit
    THEN [p EXCEPT !.capture_button_text_for_form = p.active_form_index]
    ELSE p
  ELSE IF tag = "input" /\ p.active_form # <<>> THEN
    LET name == DictGet(attrs_dict, "name")
        value == OrElse(DictGet(attrs_dict, "value"), <<>>)
        input_type == Lower(OrElse(DictGet(attrs_dict, "type"), <<>>))
        q == IF input_type \in {TypeSubmit, TypeButton}
             THEN MarkSubmitMatch(p, value, NoIndex)
             ELSE p
    IN  IF Truthy(name) /\ input_type # TypeSubmit
        THEN [q EXCEPT !.inputs[q.form_counter] =
                         IF name \in DOMAIN @ THEN @ ELSE DictSet(@, name, value)]
        ELSE q
  ELSE p

\* HandleStartTag keeping the outer form active when a matching <form> start
\* tag arrives inside an open form
HandleStartTagKeepsOuter(p, tag, attrs) ==
  LET attrs_dict == AttrsDict(attrs) IN
  IF tag = "form" THEN
    IF MatchesForm(p, attrs_dict)
    THEN IF p.active_form # <<>>
         THEN [p EXCEPT !.forms = Append(@, attrs_dict),
                        !.inputs = Append(@, EmptyDict),
                        !.form_submit_match = Append(@, FALSE),
                        !.submit_text = Append(@, <<>>),
                        !.form_counter = @ + 1]
         ELSE [p EXCEPT !.active_form = <<attrs_dict>>,
                        !.active_form_index = p.form_counter,
                        !.forms = Append(@, attrs_dict),
                        !.inputs = Append(@, EmptyDict),
                        !.form_submit_match = Append(@, FALSE),
                        !.submit_text = Append(@, <<>>),
                        !.form_counter = @ + 1]
    ELSE p
  ELSE IF tag = "button" /\ p.active_form # <<>> THEN
    LET button_type == Lower(OrElse(DictGet(attrs_dict, "type"), TypeSubmit)) IN
    IF button_type = TypeSubmit
    THEN [p EXCEPT !.capture_button_text_for_form = p.active_form_index]
    ELSE p
  ELSE IF tag = "input" /\ p.active_form # <<>> THEN
    LET name == DictGet(attrs_dict, "name")
        value == OrElse(DictGet(attrs_dict, "value"), <<>>)
        input_type == Lower(OrElse(DictGet(attrs_dict, "type"), <<>>))
        q == IF input_type \in {TypeSubmit, TypeButton}
             THEN MarkSubmitMatch(p, value, NoIndex)
             ELSE p
    IN  IF Truthy(name) /\ input_type # TypeSubmit
        THEN [q EXCEPT !.inputs[q.form_counter] = DictSet(@, name, value)]
        ELSE q
  ELSE p

HandleStartTag(p, tag, attrs) ==
  LET attrs_dict == AttrsDict(attrs) IN
  IF tag = "form" THEN
    IF MatchesForm(p, attrs_dict)
    THEN [p EXCEPT !.active_form = <<attrs_dict>>,
                   !.active_form_index = p.form_counter,
                   !.forms = Append(@, attrs_dict),
                   !.inputs = Append(@, EmptyDict),
                   !.form_submit_match = Append(@, FALSE),
                   !.submit_text = Append(@, <<>>),
                   !.form_counter = @ + 1]
    ELSE p
  ELSE IF tag = "button" /\ p.active_form # <<>> THEN
    LET button_type == Lower(OrElse(DictGet(attrs_dict, "type"), TypeSubmit)) IN
    IF button_type = TypeSubmit
    THEN [p EXCEPT !.capture_button_text_for_form = p.active_form_index]
    ELSE p
  ELSE IF tag = "input" /\ p.active_form # <<>> THEN
    LET name == DictGet(attrs_dict, "name")
        value == OrElse(DictGet(attrs_dict, "value"), <<>>)
        input_type == Lower(OrElse(DictGet(attrs_dict, "type"), <<>>))
        q == IF input_type \in {TypeSubmit, TypeButton}
             THEN MarkSubmitMatch(p, value, NoIndex)
             ELSE p
    IN  IF Truthy(name) /\ input_type # TypeSubmit
        THEN [q EXCEPT !.inputs[q.form_counter] = DictSet(@, name, value)]
        ELSE q
  ELSE p

\* HandleEndTag leaving the form active at its end tag
HandleEndTagKeepsForm(p, tag) ==
  IF tag = "button" THEN [p EXCEPT !.capture_button_text_for_form = NoIndex]
  ELSE IF tag = "form"
       THEN [p EXCEPT !.capture_button_text_for_form = NoIndex]
       ELSE p

\* HandleEndTag closing the form at any end tag other than </button>
HandleEndTagAnyTagCloses(p, tag) ==
  IF tag = "button" THEN [p EXCEPT !.capture_button_text_for_form = NoIndex]
  ELSE [p EXCEPT !.capture_button_text_for_form = NoIndex,
                 !.active_form = <<>>,
                 !.active_form_index = NoIndex]

HandleEndTag(p, tag) ==
  IF tag = "button" THEN [p EXCEPT !.capture_button_text_for_form = NoIndex]
  ELSE IF tag = "form"
       THEN [p EXCEPT !.capture_button_text_for_form = NoIndex,
                      !.active_form = <<>>,
                      !.active_form_index = NoIndex]
       ELSE p

HandleData(p, data) ==
  IF p.capture_button_text_for_form = NoIndex THEN p
  ELSE MarkSubmitMatch(p, data, p.capture_button_text_for_form)

\* HTMLParser.feed: one callback per token of the document
FeedToken(p, tok) ==
  CASE tok.kind = "start" -> HandleStartTag(p, tok.tag, tok.attrs)
    [] tok.kind = "end" -> HandleEndTag(p, tok.tag)
    [] tok.kind = "data" -> HandleData(p, tok.data)

RECURSIVE Feed(_, _)
Feed(p, doc) == IF doc = <<>> THEN p ELSE Feed(FeedToken(p, Head(doc)), Tail(doc))

\* ------------------------------------------------------------------------
\* parse_login_form: selection over the scanned parser
\* ------------------------------------------------------------------------
\* [idx for idx, matches in parser.form_submit_match.items() if matches]
RECURSIVE MatchingIndices(_, _)
MatchingIndices(form_submit_match, idx) ==
  IF idx >= Len(form_submit_match) THEN <<>>
  ELSE IF form_submit_match[idx + 1]
       THEN <<idx>> \o MatchingIndices(form_submit_match, idx + 1)
       ELSE MatchingIndices(form_submit_match, idx + 1)

WithoutNone(d) == [k \in {x \in DOMAIN d : d[x] # NoneStr} |-> d[k]]

NoParse == [raised |-> "none", selected_index |-> NoIndex,
            form_attrs |-> EmptyDict, form_inputs |-> EmptyDict]

\* SelectForm falling back to the first form when no button matches
SelectFormFallback(p) ==
  IF p.forms = <<>> THEN [NoParse EXCEPT !.raised = "NoMatchingForm"]
  ELSE LET matching_indices == MatchingIndices(p.form_submit_match, 0)
           selected_index == IF Truthy(p.button_text_contains) /\ matching_indices # <<>>
                             THEN matching_indices[1]
                             ELSE 0
       IN  [raised |-> "none",
            selected_index |-> selected_index,
            form_attrs |-> WithoutNone(p.forms[selected_index + 1]),
            form_inputs |-> p.inputs[selected_index + 1]]

\* SelectForm taking the last form whose button matches
SelectFormLast(p) ==
  IF p.forms = <<>> THEN [NoParse EXCEPT !.raised = "NoMatchingForm"]
  ELSE LET matching_indices == MatchingIndices(p.form_submit_match, 0)
           selected_index == IF Truthy(p.button_text_contains) /\ matching_indices # <<>>
                             THEN matching_indices[Len(matching_indices)]
                             ELSE 0
       IN  IF Truthy(p.button_text_contains) /\ matching_indices = <<>>
           THEN [NoParse EXCEPT !.raised = "NoMatchingButton"]
           ELSE [raised |-> "none",
                 selected_index |-> selected_index,
                 form_attrs |-> WithoutNone(p.forms[selected_index + 1]),
                 form_inputs |-> p.inputs[selected_index + 1]]

SelectForm(p) ==
  IF p.forms = <<>> THEN [NoParse EXCEPT !.raised = "NoMatchingForm"]
  ELSE LET matching_indices == MatchingIndices(p.form_submit_match, 0)
           selected_index == IF Truthy(p.button_text_contains) /\ matching_indices # <<>>
                             THEN matching_indices[1]
                             ELSE 0
       IN  IF Truthy(p.button_text_contains) /\ matching_indices = <<>>
           THEN [NoParse EXCEPT !.raised = "NoMatchingButton"]
           ELSE [raised |-> "none",
                 selected_index |-> selected_index,
                 form_attrs |-> WithoutNone(p.forms[selected_index + 1]),
                 form_inputs |-> IF selected_index < Len(p.inputs)
                                 THEN p.inputs[selected_index + 1]
                                 ELSE EmptyDict]

parse_login_form(doc, form_id, form_action_contains, button_text_contains) ==
  SelectForm(Feed(NewParser(form_id, form_action_contains, button_text_contains), doc))

\* ------------------------------------------------------------------------
\* portal_indicates_online
\* ------------------------------------------------------------------------
\* The characters of the page as html.lower() sees them: text as it is, a
\* tag as "<", its attribute values each after "=", and ">".
RECURSIVE AttrText(_)
AttrText(attrs) ==
  IF attrs = <<>> THEN <<>>
  ELSE <<"=">> \o (IF Head(attrs)[2] = NoneStr THEN <<>> ELSE Head(attrs)[2])
       \o AttrText(Tail(attrs))

TokenText(tok) ==
  CASE tok.kind = "start" -> <<"<">> \o AttrText(tok.attrs) \o <<">">>
    [] tok.kind = "end" -> <<"<", "/", ">">>
    [] tok.kind = "data" -> tok.data

RECURSIVE HtmlText(_)
HtmlText(doc) == IF doc = <<>> THEN <<>> ELSE TokenText(Head(doc)) \o HtmlText(Tail(doc))

\* portal_indicates_online comparing against the page as served, not lowercased
portal_indicates_online_cased(html, marker) ==
  LET m == Lower(Strip(marker))
  IN  m # <<>> /\ Contains(HtmlText(html), m)

portal_indicates_online(html, marker) ==
  LET m == Lower(Strip(marker))
  IN  m # <<>> /\ Contains(Lower(HtmlText(html)), m)

\* ------------------------------------------------------------------------
\* merge_form_data
\* ------------------------------------------------------------------------
\* urllib.parse.parse_qs on the URL's query, given as its name=value pairs
\* in order: a pair with a blank value is dropped (keep_blank_values is
\* False), the values of a repeated name are collected in order.
RECURSIVE parse_qs(_)
parse_qs(query) ==
  IF query = <<>> THEN EmptyDict
  ELSE LET rest == parse_qs(SubSeq(query, 1, Len(query) - 1))
           name == query[Len(query)][1]
           value == query[Len(query)][2]
       IN  IF value = <<>> THEN rest
           ELSE IF name \in DOMAIN rest
                THEN DictSet(rest, name, Append(rest[name], value))
                ELSE DictSet(rest, name, <<value>>)

RECURSIVE CopyQueryFields(_, _, _)
CopyQueryFields(payload, portal_query, query_fields) ==
  IF query_fields = <<>> THEN payload
  ELSE LET field == Head(query_fields)
           next == IF field \notin DOMAIN payload /\ field \in DOMAIN portal_query
                   THEN DictSet(payload, field, portal_query[field][1])
                   ELSE payload
       IN  CopyQueryFields(next, portal_query, Tail(query_fields))

\* SetDefaults overwriting what the payload has (dict.update)
SetDefaultsUpdate(payload, extra_fields) ==
  [k \in (DOMAIN payload) \cup (DOMAIN extra_fields) |->
     IF k \in DOMAIN extra_fields THEN extra_fields[k] ELSE payload[k]]

SetDefaults(payload, extra_fields) ==
  [k \in (DOMAIN payload) \cup (DOMAIN extra_fields) |->
     IF k \in DOMAIN payload THEN payload[k] ELSE extra_fields[k]]

merge_form_data(form_inputs, portal_url, extra_fields, query_fields) ==
  LET payload == [k \in {x \in DOMAIN form_inputs : x # <<>>} |-> form_inputs[k]]
      portal_query == parse_qs(portal_url.query)
  IN  SetDefaults(CopyQueryFields(payload, portal_query, query_fields), extra_fields)

\* ------------------------------------------------------------------------
\* has_internet, fetch_portal_page, submit_login_form
\* ------------------------------------------------------------------------
\* a response of the network: a transport error (requests.RequestException)
\* or a status code, final URL, Content-Type header and body
NoUrl == [base |-> "", query |-> <<>>]

TransportFailure ==
  [error |-> TRUE, status_code |-> 0, url |-> NoUrl,
   content_type |-> NoneStr, text |-> <<>>]

\* has_internet comparing against 204 instead of the configured status
has_internet_204(response, expected_status) ==
  IF response.error THEN FALSE ELSE response.status_code = 204

has_internet(response, expected_status) ==
  IF response.error THEN FALSE ELSE response.status_code = expected_status

TextHtml == <<"t","e","x","t","/","h","t","m","l">>

\* response.text and "text/html" in response.headers.get("Content-Type", "")
IsHtmlPage(response) ==
  /\ response.text # <<>>
  /\ Contains(OrElse(response.content_type, <<>>), TextHtml)

\* MethodGet with "post" as the default of form_attrs.get("method", ...)
MethodDefaultPost == <<"p", "o", "s", "t">>

MethodGet == <<"g", "e", "t">>

\* str.rstrip("?")
RECURSIVE RStripChar(_)
RStripChar(s) ==
  IF s # <<>> /\ s[Len(s)] = "?" THEN RStripChar(SubSeq(s, 1, Len(s) - 1)) ELSE s

\* response.ok
ResponseOk(response) == response.status_code < 400

\* ------------------------------------------------------------------------
\* State
\* ------------------------------------------------------------------------
VARIABLES
  cfg,             \* the CaptivePortalClient's configuration fields
  prev,            \* history: how the previous login() call ended
  pc,              \* position of login()
  invocation,      \* number of login() calls started
  session,         \* the requests.Session of the running login()
  requests,        \* HTTP requests issued by the running login(), in order
  probe_response,  \* what the last has_internet request got
  submit_response, \* what the submission request got
  portal_url, portal_html, form_attrs, form_inputs, payload, \* locals of login()
  result,          \* return value of login(), NoResult while none
  raised,          \* the exception login() ended with, and the stage it came from
  parser,          \* a CaptivePortalFormParser being fed
  pargs,           \* arguments of the running parse_login_form
  ppc,             \* position of parse_login_form
  n_events,        \* number of tokens fed to the parser
  rule_forms,      \* number of fed <form> start tags satisfying the match rule
  last_event,      \* history: kind and tag of the token fed last
  hist,            \* history: what the specification's scanner has accumulated
  parsed,          \* what parse_login_form returned or raised
  margs, mpc, mresult, \* a call of merge_form_data: arguments, position, result
  sargs, spc,          \* a call of submit_login_form: arguments, position
  srequests,           \* the requests that call issued
  sresult,             \* the response it returned, or the error it raised
  bparser,             \* bayernwlan.py: its CaptivePortalFormParser being fed
  bpc,                 \* bayernwlan.py: position of parse_login_form and merge_form_data
  b_events,            \* bayernwlan.py: number of tokens fed
  bparsed,             \* bayernwlan.py: what parse_login_form returned or raised
  bpayload,            \* bayernwlan.py: the payload merge_form_data returned
  bhist,               \* history: the open form and the names fed inside each form
  tpc,                 \* telekom.py: position of main()
  trequests,           \* telekom.py: HTTP requests issued by main(), in order
  tlocal,              \* telekom.py: the session and the locals of main()
  tresult,             \* telekom.py: return value of main(), NoResult while none
  traised              \* telekom.py: the exception main() ended with

vars == <<cfg, prev, pc, invocation, session, requests, probe_response, submit_response,
          portal_url, portal_html, form_attrs, form_inputs, payload, result, raised,
          parser, pargs, ppc, n_events, rule_forms, last_event, hist, parsed,
          margs, mpc, mresult,
          sargs, spc, srequests, sresult,
          bparser, bpc, b_events, bparsed, bpayload, bhist,
          tpc, trequests, tlocal, tresult, traised>>

loginVars == <<cfg, prev, pc, invocation, session, requests, probe_response, submit_response,
               portal_url, portal_html, form_attrs, form_inputs, payload, result, raised>>

parserVars == <<parser, pargs, ppc, n_events, rule_forms, last_event, hist, parsed>>

mergeVars == <<margs, mpc, mresult>>

submitVars == <<sargs, spc, srequests, sresult>>

bayernVars == <<bparser, bpc, b_events, bparsed, bpayload, bhist>>

telekomVars == <<tpc, trequests, tlocal, tresult, traised>>

NoResult == -1

NoRaise == [kind |-> "none", stage |-> "none"]

\* ------------------------------------------------------------------------
\* Inputs
\* ------------------------------------------------------------------------
StartTag(tag, attrs) == [kind |-> "start", tag |-> tag, attrs |-> attrs]

EndTag(tag) == [kind |-> "end", tag |-> tag]

Data(data) == [kind |-> "data", data |-> data]

IdF == <<"f">>

IdX == <<"x">>

ActionLogin == <<"/", "l", "o", "g", "i", "n", "?">>

ActionOther == <<"/", "o">>

MethodPost == <<"P", "O", "S", "T">>

NameS == <<"s">>

NameM == <<"m">>

TextGo == <<"G", "o">>

FormIds == {NoneStr, <<>>, IdF}

ActionSubstrings == {NoneStr, <<>>, <<"l">>}

ButtonTexts == {NoneStr, <<" ">>, <<" ", "g", "O">>}

Markers == {NoneStr, <<" ">>, <<" ", "O", "k">>}

ValueA == <<"A">>

ValueB == <<"B">>

FormStartTags ==
  { StartTag("form", <<>>),
    StartTag("form", << <<"id", IdF>> >>),
    StartTag("form", << <<"id", IdX>>, <<"action", ActionLogin>>, <<"method", MethodPost>> >>),
    StartTag("form", << <<"id", IdX>>, <<"id", IdF>> >>),
    StartTag("form", << <<"id", IdF>>, <<"id", IdX>> >>),
    StartTag("form", << <<"action", NoneStr>> >>),
    StartTag("form", << <<"id", IdX>>, <<"action", ActionOther>> >>) }

InputStartTags ==
  { StartTag("input", << <<"name", NameS>>, <<"value", ValueA>> >>),
    StartTag("input", << <<"name", NameS>>, <<"value", ValueB>> >>),
    StartTag("input", << <<"name", NameM>> >>),
    StartTag("input", << <<"type", TypeSubmit>>, <<"name", <<"g">> >>, <<"value", TextGo>> >>),
    StartTag("input", << <<"type", <<"S","u","b","m","i","t">> >>, <<"value", <<"g", "o">> >> >>),
    StartTag("input", << <<"type", TypeButton>>, <<"name", <<"b">> >>, <<"value", TextGo>> >>),
    StartTag("input", << <<"type", <<"h">> >>, <<"name", <<>> >>, <<"value", ValueA>> >>) }

ButtonStartTags ==
  { StartTag("button", <<>>),
    StartTag("button", << <<"type", TypeButton>> >>),
    StartTag("button", << <<"type", <<"S","U","B","M","I","T">> >> >>),
    StartTag("button", << <<"type", <<"r">> >> >>) }

StartTags == FormStartTags \cup InputStartTags \cup ButtonStartTags
               \cup { StartTag("div", <<>>) }

EndTags == { EndTag("form"), EndTag("button"), EndTag("div") }

DataTokens == { Data(TextGo), Data(<<"G">>), Data(<<"o">>), Data(<<"x">>) }

\* ------------------------------------------------------------------------
\* The match rule of a <form> start tag, as the specification states it:
\* the id attribute equals the configured form id, or the action attribute
\* contains the configured action substring.  A rule is configured when it
\* is set to a non-empty string; an attribute is read from the tag's
\* attribute mapping.
\* ------------------------------------------------------------------------
FormRule(args, attrs_dict) ==
  \/ /\ Truthy(args.form_id)
     /\ "id" \in DOMAIN attrs_dict
     /\ attrs_dict["id"] = args.form_id
  \/ /\ Truthy(args.form_action_contains)
     /\ "action" \in DOMAIN attrs_dict
     /\ attrs_dict["action"] # NoneStr
     /\ Contains(attrs_dict["action"], args.form_action_contains)

\* ------------------------------------------------------------------------
\* Idle values of the variables a specification does not use
\* ------------------------------------------------------------------------
NoArgs == [form_id |-> NoneStr, form_action_contains |-> NoneStr,
           button_text_contains |-> NoneStr]

\* ------------------------------------------------------------------------
\* The scanner as the specification describes it, kept as history next to
\* the parser: a form is open from a <form> start tag satisfying the match
\* rule to the next form end tag; inside it an <input> with a non-empty
\* name and a type other than "submit" is recorded (first_values keeps the
\* first value of a name, last_values the last one), and an <input> or
\* <button> of type "submit" or "button" (a <button> without type counts as
\* "submit") contributes its visible text to spec_text.  The forms are
\* numbered from 1 in the order of their start tags.
\* ------------------------------------------------------------------------
NoEvent == [kind |-> "none", tag |-> ""]

EventOf(t) == [kind |-> t.kind, tag |-> IF t.kind = "data" THEN "" ELSE t.tag]

NoHist == [in_form |-> FALSE, first_values |-> <<>>, last_values |-> <<>>,
           spec_text |-> <<>>, spec_capture |-> 0]

AttrOr(attrs_dict, key, default) ==
  IF key \in DOMAIN attrs_dict /\ attrs_dict[key] # NoneStr THEN attrs_dict[key] ELSE default

HistStartTag(h, args, n, t) ==
  LET attrs_dict == AttrsDict(t.attrs)
      type == Lower(AttrOr(attrs_dict, "type", <<>>))
      name == AttrOr(attrs_dict, "name", <<>>)
      value == AttrOr(attrs_dict, "value", <<>>)
  IN  IF t.tag = "form" THEN
        IF FormRule(args, attrs_dict)
        THEN [h EXCEPT !.in_form = TRUE,
                       !.first_values = Append(@, EmptyDict),
                       !.last_values = Append(@, EmptyDict),
                       !.spec_text = Append(@, <<>>)]
        ELSE h
      ELSE IF t.tag = "input" /\ h.in_form THEN
        LET h1 == IF type \in {TypeSubmit, TypeButton}
                  THEN [h EXCEPT !.spec_text[n] = @ \o value]
                  ELSE h
        IN  IF name # <<>> /\ type # TypeSubmit
            THEN [h1 EXCEPT !.first_values[n] =
                              IF name \in DOMAIN @ THEN @ ELSE DictSet(@, name, value),
                            !.last_values[n] = DictSet(@, name, value)]
            ELSE h1
      ELSE IF t.tag = "button" /\ h.in_form THEN
        [h EXCEPT !.spec_capture = IF type \in {<<>>, TypeSubmit, TypeButton} THEN n ELSE 0]
      ELSE h

HistEndTag(h, t) ==
  IF t.tag = "form" THEN [h EXCEPT !.in_form = FALSE, !.spec_capture = 0]
  ELSE IF t.tag = "button" THEN [h EXCEPT !.spec_capture = 0]
  ELSE h

HistData(h, t) ==
  IF h.spec_capture = 0 THEN h
  ELSE [h EXCEPT !.spec_text[h.spec_capture] = @ \o t.data]

ParserIdle ==
  /\ parser = NewParser(NoneStr, NoneStr, NoneStr)
  /\ pargs = NoArgs
  /\ ppc = "idle"
  /\ n_events = 0
  /\ rule_forms = 0
  /\ last_event = NoEvent
  /\ hist = NoHist
  /\ parsed = NoParse

NoConfig ==
  [probe_expected_status |-> 204, form_id |-> NoneStr,
   form_action_contains |-> NoneStr, button_text_contains |-> NoneStr,
   already_online_marker |-> NoneStr, default_form_fields |-> EmptyDict,
   query_fields_from_url |-> <<>>]

LoginIdle ==
  /\ cfg = NoConfig
  /\ prev = "none"
  /\ pc = "unused"
  /\ invocation = 0
  /\ session = 0
  /\ requests = <<>>
  /\ probe_response = TransportFailure
  /\ submit_response = TransportFailure
  /\ portal_url = NoUrl
  /\ portal_html = <<>>
  /\ form_attrs = EmptyDict
  /\ form_inputs = EmptyDict
  /\ payload = EmptyDict
  /\ result = NoResult
  /\ raised = NoRaise

NoMergeArgs == [form_inputs |-> EmptyDict, portal_url |-> NoUrl,
                extra_fields |-> EmptyDict, query_fields |-> <<>>]

MergeIdle ==
  /\ margs = NoMergeArgs
  /\ mpc = "idle"
  /\ mresult = EmptyDict

\* ------------------------------------------------------------------------
\* bayernwlan.py: its configuration and its CaptivePortalFormParser.  The
\* parser keeps inputs keyed by id() of a form's attribute dict; the dicts
\* stay alive in forms, so the key is the position of the dict in forms, and
\* active_form refers to a dict of forms by that position (0 for None).
\* error is the exception a callback raised out of feed.  Field names and
\* values no string function inspects are kept whole.
\* ------------------------------------------------------------------------
Bayern_FORM_ID == <<"l", "o", "g", "i", "n", "F", "o", "r", "m">>

Bayern_FORM_ACTION_CONTAINS ==
  <<"/", "a", "p", "i", "/", "v", "4", "/", "l", "o", "g", "i", "n">>

Bayern_DEFAULT_FORM_FIELDS ==
  [k \in {<<"loginProfile">>, <<"accessType">>, <<"action">>, <<"portal">>} |->
     CASE k = <<"loginProfile">> -> <<"6">>
       [] k = <<"accessType">> -> <<"termsOnly">>
       [] k = <<"action">> -> <<"redirect">>
       [] k = <<"portal">> -> <<"bayern">>]

Bayern_QUERY_FIELDS_FROM_PORTAL_URL == << <<"sessionID">> >>

BayernNewParser(form_id, action_contains) ==
  [ form_id |-> form_id,
    action_contains |-> action_contains,
    active_form |-> 0,
    forms |-> <<>>,
    inputs |-> <<>>,
    error |-> "none" ]

\* "yes", "no", or the TypeError of `in None` for an action without a value
BayernMatchesForm(p, attrs_dict) ==
  IF Truthy(p.form_id) /\ DictGet(attrs_dict, "id") = p.form_id THEN "yes"
  ELSE IF ~Truthy(p.action_contains) THEN "no"
  ELSE IF "action" \in DOMAIN attrs_dict /\ attrs_dict["action"] = NoneStr THEN "TypeError"
  ELSE IF Contains(IF "action" \in DOMAIN attrs_dict THEN attrs_dict["action"] ELSE <<>>,
                   p.action_contains)
       THEN "yes"
       ELSE "no"

BayernHandleStartTag(p, tag, attrs) ==
  LET attrs_dict == AttrsDict(attrs) IN
  IF tag = "form" THEN
    LET m == BayernMatchesForm(p, attrs_dict) IN
    IF m = "yes"
    THEN [p EXCEPT !.active_form = Len(p.forms) + 1,
                   !.forms = Append(@, attrs_dict),
                   !.inputs = Append(@, EmptyDict)]
    ELSE IF m = "no" THEN p
    ELSE [p EXCEPT !.error = m]
  ELSE IF tag = "input" /\ p.active_form # 0 THEN
    LET name == DictGet(attrs_dict, "name")
        value == IF "value" \in DOMAIN attrs_dict THEN attrs_dict["value"] ELSE <<>>
        type == IF "type" \in DOMAIN attrs_dict THEN attrs_dict["type"] ELSE <<>>
    IN  IF type = NoneStr THEN [p EXCEPT !.error = "AttributeError"]
        ELSE IF Truthy(name) /\ Lower(type) # TypeSubmit
             THEN [p EXCEPT !.inputs[p.active_form] = DictSet(@, name, value)]
             ELSE p
  ELSE p

BayernNoParse == [raised |-> "none", form_attrs |-> EmptyDict, form_inputs |-> EmptyDict]

\* parse_login_form after parser.feed(html)
BayernSelectForm(p) ==
  IF p.error # "none" THEN [BayernNoParse EXCEPT !.raised = p.error]
  ELSE IF p.forms = <<>> THEN [BayernNoParse EXCEPT !.raised = "RuntimeError"]
  ELSE [raised |-> "none", form_attrs |-> p.forms[1], form_inputs |-> p.inputs[1]]

\* the function has the text of the library's, with the query fields read
\* from the module constant
Bayern_merge_form_data(inputs, url, extra_fields) ==
  merge_form_data(inputs, url, extra_fields, Bayern_QUERY_FIELDS_FROM_PORTAL_URL)

BayernArgs == [form_id |-> Bayern_FORM_ID,
               form_action_contains |-> Bayern_FORM_ACTION_CONTAINS,
               button_text_contains |-> NoneStr]

NoBayernHist == [in_form |-> FALSE, inside |-> <<>>, last |-> "none"]

BayernIdle ==
  /\ bparser = BayernNewParser(NoneStr, NoneStr)
  /\ bpc = "idle"
  /\ b_events = 0
  /\ bparsed = BayernNoParse
  /\ bpayload = EmptyDict
  /\ bhist = NoBayernHist

\* ------------------------------------------------------------------------
\* telekom.py: its configuration.  Its CaptivePortalFormParser (lines
\* 54-133) has the text of the library's class, and its functions differ
\* from the library's only in reading these constants instead of parameters.
\* ------------------------------------------------------------------------
Telekom_PROBE_EXPECTED_STATUS == 204

Telekom_FORM_ID == NoneStr

Telekom_FORM_ACTION_CONTAINS == <<"l", "o", "g", "i", "n">>

Telekom_BUTTON_TEXT_CONTAINS == <<"o", "n", "l", "i", "n", "e", " ", "g", "e", "h", "e", "n">>

Telekom_ALREADY_ONLINE_TEXT_CONTAINS ==
  <<"j", "e", "t", "z", "t", " ", "s", "u", "r", "f", "e", "n">>

Telekom_DEFAULT_FORM_FIELDS == EmptyDict

Telekom_QUERY_FIELDS_FROM_PORTAL_URL ==
  << <<"sessionId">>, <<"mac">>, <<"apMac">>, <<"clientMac">> >>

Telekom_has_internet(response) ==
  IF response.error THEN FALSE
  ELSE response.status_code = Telekom_PROBE_EXPECTED_STATUS

Telekom_parse_login_form(html) ==
  SelectForm(Feed(NewParser(Telekom_FORM_ID, Telekom_FORM_ACTION_CONTAINS,
                            Telekom_BUTTON_TEXT_CONTAINS), html))

\* Telekom_portal_indicates_online comparing the page text as it is
Telekom_portal_indicates_online_cased(html) ==
  LET marker == Lower(Strip(Telekom_ALREADY_ONLINE_TEXT_CONTAINS))
  IN  marker # <<>> /\ Contains(HtmlText(html), marker)

Telekom_portal_indicates_online(html) ==
  LET marker == Lower(Strip(Telekom_ALREADY_ONLINE_TEXT_CONTAINS))
  IN  marker # <<>> /\ Contains(Lower(HtmlText(html)), marker)

Telekom_merge_form_data(inputs, url, extra_fields) ==
  merge_form_data(inputs, url, extra_fields, Telekom_QUERY_FIELDS_FROM_PORTAL_URL)

NoTelekomLocal ==
  [session |-> 0, portal_url |-> NoUrl, portal_html |-> <<>>, form_attrs |-> EmptyDict,
   form_inputs |-> EmptyDict, payload |-> EmptyDict, submit_response |-> TransportFailure]

TelekomIdle ==
  /\ tpc = "idle"
  /\ trequests = <<>>
  /\ tlocal = NoTelekomLocal
  /\ tresult = NoResult
  /\ traised = NoRaise

NoSubmitArgs == [portal_url |-> NoUrl, form_attrs |-> EmptyDict, payload |-> EmptyDict]

SubmitIdle ==
  /\ sargs = NoSubmitArgs
  /\ spc = "idle"
  /\ srequests = <<>>
  /\ sresult = TransportFailure

\* ------------------------------------------------------------------------
\* parse_login_form as a process: the parser is constructed, HTMLParser.feed
\* delivers the document's tokens one callback at a time, then the form is
\* selected
\* ------------------------------------------------------------------------
InitParser ==
  /\ \E f \in FormIds, a \in ActionSubstrings, b \in ButtonTexts :
       /\ pargs = [form_id |-> f, form_action_contains |-> a, button_text_contains |-> b]
       /\ parser = NewParser(f, a, b)
  /\ ppc = "feed"
  /\ n_events = 0
  /\ rule_forms = 0
  /\ last_event = NoEvent
  /\ hist = NoHist
  /\ parsed = NoParse
  /\ LoginIdle
  /\ MergeIdle
  /\ SubmitIdle
  /\ BayernIdle
  /\ TelekomIdle

FeedStartTag ==
  /\ ppc = "feed"
  /\ n_events < MaxEvents
  /\ \E t \in StartTags :
       /\ parser' = HandleStartTag(parser, t.tag, t.attrs)
       /\ rule_forms' = IF t.tag = "form" /\ FormRule(pargs, AttrsDict(t.attrs))
                        THEN rule_forms + 1 ELSE rule_forms
       /\ last_event' = EventOf(t)
       /\ hist' = HistStartTag(hist, pargs, rule_forms, t)
  /\ n_events' = n_events + 1
  /\ UNCHANGED <<pargs, ppc, parsed, loginVars, mergeVars, submitVars, bayernVars, telekomVars>>

FeedEndTag ==
  /\ ppc = "feed"
  /\ n_events < MaxEvents
  /\ \E t \in EndTags :
       /\ parser' = HandleEndTag(parser, t.tag)
       /\ last_event' = EventOf(t)
       /\ hist' = HistEndTag(hist, t)
  /\ n_events' = n_events + 1
  /\ UNCHANGED <<pargs, ppc, rule_forms, parsed, loginVars, mergeVars, submitVars, bayernVars, telekomVars>>

FeedData ==
  /\ ppc = "feed"
  /\ n_events < MaxEvents
  /\ \E t \in DataTokens :
       /\ parser' = HandleData(parser, t.data)
       /\ last_event' = EventOf(t)
       /\ hist' = HistData(hist, t)
  /\ n_events' = n_events + 1
  /\ UNCHANGED <<pargs, ppc, rule_forms, parsed, loginVars, mergeVars, submitVars, bayernVars, telekomVars>>

ParseSelect ==
  /\ ppc = "feed"
  /\ parsed' = SelectForm(parser)
  /\ ppc' = "done"
  /\ UNCHANGED <<parser, pargs, n_events, rule_forms, last_event, hist, loginVars, mergeVars, submitVars, bayernVars, telekomVars>>

NextParser == FeedStartTag \/ FeedEndTag \/ FeedData \/ ParseSelect

SpecParser == InitParser /\ [][NextParser]_vars

\* ------------------------------------------------------------------------
\* CaptivePortalClient.login
\* ------------------------------------------------------------------------
Configs ==
  [ probe_expected_status : {204, 200},
    form_id : {NoneStr, IdF},
    form_action_contains : {NoneStr, <<"l">>},
    button_text_contains : {NoneStr, <<" ", "g", "O">>},
    already_online_marker : Markers,
    default_form_fields : {[k \in {NameS} |-> <<"C">>]},
    query_fields_from_url : {<<NameS>>} ]

\* pages a portal may serve
PageOnline == << Data(<<"i", "s", " ", "O", "K">>) >>

PageOnlineForm ==
  << StartTag("form", << <<"id", IdF>>, <<"action", ActionLogin>> >>),
     Data(<<" ", "o", "k">>),
     StartTag("input", << <<"type", TypeSubmit>>, <<"value", TextGo>> >>),
     EndTag("form") >>

PageLogin ==
  << StartTag("form", << <<"id", IdF>>, <<"action", ActionLogin>>, <<"method", MethodPost>> >>),
     StartTag("input", << <<"name", NameS>>, <<"value", ValueA>> >>),
     StartTag("button", <<>>), Data(TextGo), EndTag("button"),
     EndTag("form") >>

PageTwoForms ==
  << StartTag("form", << <<"id", IdF>> >>),
     StartTag("input", << <<"name", NameM>>, <<"value", ValueB>> >>),
     EndTag("form"),
     StartTag("form", << <<"action", ActionLogin>> >>),
     StartTag("input", << <<"type", TypeSubmit>>, <<"value", TextGo>> >>),
     EndTag("form") >>

PageWrongButton ==
  << StartTag("form", << <<"id", IdF>>, <<"action", ActionLogin>> >>),
     StartTag("button", <<>>), Data(<<"n", "o">>), EndTag("button"),
     EndTag("form") >>

PageOtherForm ==
  << StartTag("form", << <<"id", IdX>>, <<"action", ActionOther>> >>),
     StartTag("input", << <<"name", NameS>>, <<"value", <<"a", " ", "b">> >> >>),
     EndTag("form") >>

\* pages of the Telekom hotspot
PageTelekomLogin ==
  << StartTag("form", << <<"action", ActionLogin>>, <<"method", MethodPost>> >>),
     StartTag("input", << <<"name", NameS>>, <<"value", ValueA>> >>),
     StartTag("button", <<>>),
     Data(<<"O", "n", "l", "i", "n", "e", " ", "g", "e", "h", "e", "n">>),
     EndTag("button"),
     EndTag("form") >>

PageTelekomOnline ==
  << Data(<<"J", "e", "t", "z", "t", " ", "S", "u", "r", "f", "e", "n">>) >>

PortalPages ==
  {PageOnline, PageOnlineForm, PageLogin, PageTwoForms, PageWrongButton, PageOtherForm,
   PageTelekomLogin, PageTelekomOnline}

ProbeResponses ==
  {TransportFailure}
    \cup { [error |-> FALSE, status_code |-> c, url |-> NoUrl,
            content_type |-> NoneStr, text |-> <<>>] : c \in {204, 200, 302} }

PageResponse(u, ct, t) ==
  [error |-> FALSE, status_code |-> 200, url |-> u, content_type |-> ct, text |-> t]

UrlPlain == [base |-> "portal", query |-> <<>>]

UrlQuery ==
  [base |-> "portal", query |-> << <<NameS, <<>> >>, <<NameS, ValueB>>, <<NameM, ValueA>>,
                                   << <<"sessionId">>, ValueB >> >>]

PortalUrls == {UrlPlain, UrlQuery}

ContentHtml == TextHtml \o <<";", "u">>

ContentPlain == <<"t", "e", "x", "t", "/", "p">>

\* an HTML page of every kind from every URL, and the answers that are no
\* HTML page: a transport error, another content type, no Content-Type
\* header, an empty body
PageResponses ==
  {TransportFailure}
    \cup { PageResponse(u, ContentHtml, t) : u \in PortalUrls, t \in PortalPages }
    \cup { PageResponse(UrlPlain, ContentPlain, PageLogin),
           PageResponse(UrlQuery, NoneStr, PageOnline),
           PageResponse(UrlPlain, ContentHtml, <<>>) }

SubmitResponses ==
  {TransportFailure}
    \cup { [error |-> FALSE, status_code |-> c, url |-> NoUrl,
            content_type |-> NoneStr, text |-> <<>>] : c \in {200, 403} }

NoData == [body |-> EmptyDict, params |-> EmptyDict]

\* an entry of the request log: the request and what the network answered
Request(kind, method, url, allow_redirects, data, response) ==
  [kind |-> kind, method |-> method, url |-> url,
   allow_redirects |-> allow_redirects, data |-> data, session |-> session,
   response |-> response]

\* the constructor has run
Init ==
  /\ cfg \in Configs
  /\ prev = "none"
  /\ pc = "idle"
  /\ invocation = 0
  /\ session = 0
  /\ requests = <<>>
  /\ probe_response = TransportFailure
  /\ submit_response = TransportFailure
  /\ portal_url = NoUrl
  /\ portal_html = <<>>
  /\ form_attrs = EmptyDict
  /\ form_inputs = EmptyDict
  /\ payload = EmptyDict
  /\ result = NoResult
  /\ raised = NoRaise
  /\ ParserIdle
  /\ MergeIdle
  /\ SubmitIdle
  /\ BayernIdle
  /\ TelekomIdle

\* login() is called: session = requests.Session()
Login ==
  /\ pc \in {"idle", "done"}
  /\ invocation < MaxInvocations
  /\ invocation' = invocation + 1
  /\ session' = invocation + 1
  /\ requests' = <<>>
  /\ probe_response' = TransportFailure
  /\ submit_response' = TransportFailure
  /\ portal_url' = NoUrl
  /\ portal_html' = <<>>
  /\ form_attrs' = EmptyDict
  /\ form_inputs' = EmptyDict
  /\ payload' = EmptyDict
  /\ result' = NoResult
  /\ raised' = NoRaise
  /\ pc' = "probe_initial"
  /\ prev' = IF pc = "idle" THEN "none"
             ELSE IF raised = NoRaise /\ result = 0 /\ Len(requests) = 1 THEN "online"
             ELSE "other"
  /\ UNCHANGED <<cfg, parserVars, mergeVars, submitVars, bayernVars, telekomVars>>

\* CheckInternetInitial with has_internet lacking its except clause
CheckInternetInitialUncaught ==
  /\ pc = "probe_initial"
  /\ \E response \in ProbeResponses :
       /\ probe_response' = response
       /\ requests' = Append(requests, Request("probe", "GET", "probe_url", FALSE, NoData, response))
       /\ IF response.error
          THEN /\ raised' = [kind |-> "TransportError", stage |-> "probe"]
               /\ result' = result /\ pc' = "done"
          ELSE /\ UNCHANGED raised
               /\ IF response.status_code = cfg.probe_expected_status
                  THEN result' = 0 /\ pc' = "done"
                  ELSE result' = result /\ pc' = "fetch_probe"
  /\ UNCHANGED <<cfg, prev, invocation, session, submit_response, portal_url, portal_html,
                 form_attrs, form_inputs, payload, parserVars, mergeVars, submitVars, bayernVars, telekomVars>>

\* if self.check_internet(session): return 0
CheckInternetInitial ==
  /\ pc = "probe_initial"
  /\ \E response \in ProbeResponses :
       /\ probe_response' = response
       /\ requests' = Append(requests, Request("probe", "GET", "probe_url", FALSE, NoData, response))
       /\ IF has_internet(response, cfg.probe_expected_status)
          THEN result' = 0 /\ pc' = "done"
          ELSE result' = result /\ pc' = "fetch_probe"
  /\ UNCHANGED <<cfg, prev, invocation, session, submit_response, portal_url, portal_html,
                 form_attrs, form_inputs, payload, raised, parserVars, mergeVars, submitVars, bayernVars, telekomVars>>

\* FetchPortalProbe with no except clause: the transport error propagates
FetchPortalProbeUncaught ==
  /\ pc = "fetch_probe"
  /\ \E response \in PageResponses :
       /\ requests' = Append(requests, Request("fetch", "GET", "probe_url", TRUE, NoData, response))
       /\ IF response.error
          THEN /\ raised' = [kind |-> "TransportError", stage |-> "fetch"]
               /\ pc' = "done"
               /\ UNCHANGED <<portal_url, portal_html>>
          ELSE IF IsHtmlPage(response)
          THEN /\ portal_url' = response.url
               /\ portal_html' = response.text
               /\ pc' = "check_marker"
               /\ UNCHANGED raised
          ELSE /\ UNCHANGED <<portal_url, portal_html, raised>>
               /\ pc' = "fetch_fallback"
  /\ UNCHANGED <<cfg, prev, invocation, session, probe_response, submit_response,
                 form_attrs, form_inputs, payload, result, parserVars, mergeVars, submitVars, bayernVars, telekomVars>>

\* fetch_portal_page: the GET of the probe URL with redirects followed
FetchPortalProbe ==
  /\ pc = "fetch_probe"
  /\ \E response \in PageResponses :
       /\ requests' = Append(requests, Request("fetch", "GET", "probe_url", TRUE, NoData, response))
       /\ IF ~response.error /\ IsHtmlPage(response)
          THEN /\ portal_url' = response.url
               /\ portal_html' = response.text
               /\ pc' = "check_marker"
          ELSE /\ UNCHANGED <<portal_url, portal_html>>
               /\ pc' = "fetch_fallback"
  /\ UNCHANGED <<cfg, prev, invocation, session, probe_response, submit_response,
                 form_attrs, form_inputs, payload, result, raised, parserVars, mergeVars, submitVars, bayernVars, telekomVars>>

\* FetchPortalFallback trying again after a transport error
FetchPortalFallbackRetry ==
  /\ pc = "fetch_fallback"
  /\ \E response \in PageResponses :
       /\ requests' = Append(requests, Request("fetch", "GET", "fallback_url", TRUE, NoData, response))
       /\ IF response.error
          THEN /\ pc' = "fetch_fallback"
               /\ UNCHANGED <<portal_url, portal_html, raised>>
          ELSE /\ portal_url' = response.url
               /\ portal_html' = response.text
               /\ pc' = "check_marker"
               /\ UNCHANGED raised
  /\ UNCHANGED <<cfg, prev, invocation, session, probe_response, submit_response,
                 form_attrs, form_inputs, payload, result, parserVars, mergeVars, submitVars, bayernVars, telekomVars>>

\* fetch_portal_page: the GET of the fallback URL
FetchPortalFallback ==
  /\ pc = "fetch_fallback"
  /\ \E response \in PageResponses :
       /\ requests' = Append(requests, Request("fetch", "GET", "fallback_url", TRUE, NoData, response))
       /\ IF response.error
          THEN /\ raised' = [kind |-> "TransportError", stage |-> "fetch"]
               /\ pc' = "done"
               /\ UNCHANGED <<portal_url, portal_html>>
          ELSE /\ portal_url' = response.url
               /\ portal_html' = response.text
               /\ pc' = "check_marker"
               /\ UNCHANGED raised
  /\ UNCHANGED <<cfg, prev, invocation, session, probe_response, submit_response,
                 form_attrs, form_inputs, payload, result, parserVars, mergeVars, submitVars, bayernVars, telekomVars>>

is_online_page(html) ==
  IF ~Truthy(cfg.already_online_marker) THEN FALSE
  ELSE portal_indicates_online(html, cfg.already_online_marker)

\* if self.is_online_page(portal_html): return 0
IsOnlinePage ==
  /\ pc = "check_marker"
  /\ IF is_online_page(portal_html)
     THEN result' = 0 /\ pc' = "done"
     ELSE result' = result /\ pc' = "parse"
  /\ UNCHANGED <<cfg, prev, invocation, session, requests, probe_response, submit_response,
                 portal_url, portal_html, form_attrs, form_inputs, payload, raised,
                 parserVars, mergeVars, submitVars, bayernVars, telekomVars>>

\* form_attrs, form_inputs = self.parse_form(portal_html)
ParseForm ==
  /\ pc = "parse"
  /\ LET r == parse_login_form(portal_html, cfg.form_id, cfg.form_action_contains,
                               cfg.button_text_contains)
     IN  IF r.raised # "none"
         THEN /\ raised' = [kind |-> r.raised, stage |-> "parse"]
              /\ pc' = "done"
              /\ UNCHANGED <<form_attrs, form_inputs>>
         ELSE /\ form_attrs' = r.form_attrs
              /\ form_inputs' = r.form_inputs
              /\ pc' = "build"
              /\ UNCHANGED raised
  /\ UNCHANGED <<cfg, prev, invocation, session, requests, probe_response, submit_response,
                 portal_url, portal_html, payload, result, parserVars, mergeVars, submitVars, bayernVars, telekomVars>>

\* BuildPayload keeping the merged payload in the client's default fields
BuildPayloadInPlace ==
  /\ pc = "build"
  /\ payload' = merge_form_data(form_inputs, portal_url, cfg.default_form_fields,
                                cfg.query_fields_from_url)
  /\ cfg' = [cfg EXCEPT !.default_form_fields = payload']
  /\ pc' = "submit"
  /\ UNCHANGED <<prev, invocation, session, requests, probe_response, submit_response,
                 portal_url, portal_html, form_attrs, form_inputs, result, raised,
                 parserVars, mergeVars, submitVars, bayernVars, telekomVars>>

\* payload = self.build_payload(form_inputs, portal_url)
BuildPayload ==
  /\ pc = "build"
  /\ payload' = merge_form_data(form_inputs, portal_url, cfg.default_form_fields,
                                cfg.query_fields_from_url)
  /\ pc' = "submit"
  /\ UNCHANGED <<cfg, prev, invocation, session, requests, probe_response, submit_response,
                 portal_url, portal_html, form_attrs, form_inputs, result, raised,
                 parserVars, mergeVars, submitVars, bayernVars, telekomVars>>

\* SubmitRequest issued with requests.post / requests.get instead of the
\* session's methods
SubmitRequestNoSession(url, attrs, data, response) ==
  LET action == RStripChar(IF "action" \in DOMAIN attrs THEN attrs["action"] ELSE <<>>)
      method == Lower(IF "method" \in DOMAIN attrs THEN attrs["method"] ELSE MethodGet)
      submit_url == [base |-> url, ref |-> action]
      r == IF method = Lower(MethodPost)
           THEN Request("submit", "POST", submit_url, TRUE, [body |-> data, params |-> EmptyDict], response)
           ELSE Request("submit", "GET", submit_url, TRUE, [body |-> EmptyDict, params |-> data], response)
  IN  [r EXCEPT !.session = 0]

\* submit_login_form: the request it issues; the action resolved against
\* the portal URL is kept as the pair of the two
SubmitRequest(url, attrs, data, response) ==
  LET action == RStripChar(IF "action" \in DOMAIN attrs THEN attrs["action"] ELSE <<>>)
      method == Lower(IF "method" \in DOMAIN attrs THEN attrs["method"] ELSE MethodGet)
      submit_url == [base |-> url, ref |-> action]
  IN  IF method = Lower(MethodPost)
      THEN Request("submit", "POST", submit_url, TRUE, [body |-> data, params |-> EmptyDict], response)
      ELSE Request("submit", "GET", submit_url, TRUE, [body |-> EmptyDict, params |-> data], response)

\* Submit raising on a non-ok status (response.raise_for_status())
SubmitRaiseForStatus ==
  /\ pc = "submit"
  /\ \E response \in SubmitResponses :
       /\ requests' = Append(requests, SubmitRequest(portal_url, form_attrs, payload, response))
       /\ IF response.error
          THEN /\ raised' = [kind |-> "TransportError", stage |-> "submit"]
               /\ pc' = "done"
               /\ UNCHANGED submit_response
          ELSE IF ~ResponseOk(response)
          THEN /\ raised' = [kind |-> "HTTPError", stage |-> "submit"]
               /\ pc' = "done"
               /\ submit_response' = response
          ELSE /\ submit_response' = response
               /\ pc' = "probe_final"
               /\ UNCHANGED raised
  /\ UNCHANGED <<cfg, prev, invocation, session, probe_response, portal_url, portal_html,
                 form_attrs, form_inputs, payload, result, parserVars, mergeVars, submitVars, bayernVars, telekomVars>>

\* response = self.submit(...); the warning on a non-ok status changes nothing
Submit ==
  /\ pc = "submit"
  /\ \E response \in SubmitResponses :
       /\ requests' = Append(requests, SubmitRequest(portal_url, form_attrs, payload, response))
       /\ IF response.error
          THEN /\ raised' = [kind |-> "TransportError", stage |-> "submit"]
               /\ pc' = "done"
               /\ UNCHANGED submit_response
          ELSE /\ submit_response' = response
               /\ pc' = "probe_final"
               /\ UNCHANGED raised
  /\ UNCHANGED <<cfg, prev, invocation, session, probe_response, portal_url, portal_html,
                 form_attrs, form_inputs, payload, result, parserVars, mergeVars, submitVars, bayernVars, telekomVars>>

\* CheckInternetFinal giving up without a probe when the submission was not ok
CheckInternetFinalOnlyIfOk ==
  /\ pc = "probe_final"
  /\ IF ResponseOk(submit_response)
     THEN \E response \in ProbeResponses :
            /\ probe_response' = response
            /\ requests' = Append(requests, Request("probe", "GET", "probe_url", FALSE, NoData, response))
            /\ result' = IF has_internet(response, cfg.probe_expected_status) THEN 0 ELSE 1
     ELSE /\ result' = 1
          /\ UNCHANGED <<probe_response, requests>>
  /\ pc' = "done"
  /\ UNCHANGED <<cfg, prev, invocation, session, submit_response, portal_url, portal_html,
                 form_attrs, form_inputs, payload, raised, parserVars, mergeVars, submitVars, bayernVars, telekomVars>>

\* if self.check_internet(session): return 0 ... return 1
CheckInternetFinal ==
  /\ pc = "probe_final"
  /\ \E response \in ProbeResponses :
       /\ probe_response' = response
       /\ requests' = Append(requests, Request("probe", "GET", "probe_url", FALSE, NoData, response))
       /\ result' = IF has_internet(response, cfg.probe_expected_status) THEN 0 ELSE 1
  /\ pc' = "done"
  /\ UNCHANGED <<cfg, prev, invocation, session, submit_response, portal_url, portal_html,
                 form_attrs, form_inputs, payload, raised, parserVars, mergeVars, submitVars, bayernVars, telekomVars>>

Next ==
  \/ Login
  \/ CheckInternetInitial
  \/ FetchPortalProbe
  \/ FetchPortalFallback
  \/ IsOnlinePage
  \/ ParseForm
  \/ BuildPayload
  \/ Submit
  \/ CheckInternetFinal

Spec == Init /\ [][Next]_vars

\* ------------------------------------------------------------------------
\* merge_form_data as a process: called with arguments, it returns the payload
\* ------------------------------------------------------------------------
Dicts(keys, values) == UNION { [ks -> values] : ks \in SUBSET keys }

SeqsUpTo(S, n) == UNION { [1..k -> S] : k \in 0..n }

InitMerge ==
  /\ margs \in [ form_inputs : Dicts({NameS, <<>>}, {ValueA, <<>>}),
                 portal_url : { [base |-> "portal", query |-> q] :
                                  q \in SeqsUpTo({NameS, NameM} \X {<<>>, ValueB, <<"D">>}, MaxQuery) },
                 extra_fields : Dicts({NameS, NameM}, {<<"C">>}),
                 query_fields : {<<>>, <<NameS>>, <<NameM, NameS>>} ]
  /\ mpc = "call"
  /\ mresult = EmptyDict
  /\ LoginIdle
  /\ ParserIdle
  /\ SubmitIdle
  /\ BayernIdle
  /\ TelekomIdle

MergeFormData ==
  /\ mpc = "call"
  /\ mresult' = merge_form_data(margs.form_inputs, margs.portal_url,
                                margs.extra_fields, margs.query_fields)
  /\ mpc' = "done"
  /\ UNCHANGED <<margs, loginVars, parserVars, submitVars, bayernVars, telekomVars>>

NextMerge == MergeFormData

SpecMerge == InitMerge /\ [][NextMerge]_vars

\* ------------------------------------------------------------------------
\* Claims about merge_form_data (SpecMerge)
\* ------------------------------------------------------------------------
FormKeys == {k \in DOMAIN margs.form_inputs : k # <<>>}

QueryFieldSet == {margs.query_fields[i] : i \in 1..Len(margs.query_fields)}

UrlQueryPairs == margs.portal_url.query

\* the configured query fields that occur as a name in the URL's query string
UrlKeys ==
  {k \in QueryFieldSet : \E i \in 1..Len(UrlQueryPairs) : UrlQueryPairs[i][1] = k}

UrlFirstValue(k) ==
  UrlQueryPairs[CHOOSE i \in 1..Len(UrlQueryPairs) :
                  /\ UrlQueryPairs[i][1] = k
                  /\ \A j \in 1..(i - 1) : UrlQueryPairs[j][1] # k][2]

\* the configured query fields that have a non-blank value in the URL
UrlFilledKeys ==
  {k \in QueryFieldSet :
     \E i \in 1..Len(UrlQueryPairs) : UrlQueryPairs[i][1] = k /\ UrlQueryPairs[i][2] # <<>>}

UrlFirstFilledValue(k) ==
  UrlQueryPairs[CHOOSE i \in 1..Len(UrlQueryPairs) :
                  /\ UrlQueryPairs[i][1] = k /\ UrlQueryPairs[i][2] # <<>>
                  /\ \A j \in 1..(i - 1) :
                       ~(UrlQueryPairs[j][1] = k /\ UrlQueryPairs[j][2] # <<>>)][2]

DefaultKeys == DOMAIN margs.extra_fields

\* C4 as stated: first source wins for every key: the form's value, else the
\* first value of a configured query field present in the URL's query
\* string, else the configured default; the payload's keys are exactly the
\* form's non-empty input names, the query fields found in the URL and the
\* default keys.
C4_Original ==
  mpc = "done" =>
    /\ DOMAIN mresult = FormKeys \cup UrlKeys \cup DefaultKeys
    /\ \A k \in FormKeys : mresult[k] = margs.form_inputs[k]
    /\ \A k \in UrlKeys \ FormKeys : mresult[k] = UrlFirstValue(k)
    /\ \A k \in DefaultKeys \ (FormKeys \cup UrlKeys) : mresult[k] = margs.extra_fields[k]

\* C4 (amended): first source wins for every key: the form's value (blank or
\* not), else, for a configured query field that has a non-blank value in
\* the URL's query string, the first such value, else the configured
\* default; the payload's keys are exactly the form's non-empty input
\* names, the query fields with a non-blank value in the URL and the
\* default keys.
C4_FirstSourceWins ==
  mpc = "done" =>
    /\ DOMAIN mresult = FormKeys \cup UrlFilledKeys \cup DefaultKeys
    /\ \A k \in FormKeys : mresult[k] = margs.form_inputs[k]
    /\ \A k \in UrlFilledKeys \ FormKeys : mresult[k] = UrlFirstFilledValue(k)
    /\ \A k \in DefaultKeys \ (FormKeys \cup UrlFilledKeys) :
         mresult[k] = margs.extra_fields[k]

C4_Witness ==
  /\ mpc = "done"
  /\ NameS \in FormKeys
  /\ margs.form_inputs[NameS] = <<>>
  /\ NameS \in UrlFilledKeys
  /\ NameS \in DefaultKeys
  /\ NameM \in (UrlFilledKeys \cap DefaultKeys) \ FormKeys
  /\ mresult[NameS] = <<>>
  /\ mresult[NameM] = UrlFirstFilledValue(NameM)
  /\ mresult[NameM] # margs.extra_fields[NameM]

\* ------------------------------------------------------------------------
\* submit_login_form as a process: called with the portal URL, the selected
\* form's attributes and the payload, it issues its request and returns the
\* response or lets the transport error propagate
\* ------------------------------------------------------------------------
FormActions ==
  { <<>>, <<"/", "l">>, ActionLogin, <<"/", "l", "?", "?">>, <<"?">>, <<"l", "?", "a">> }

FormMethods ==
  { <<>>, <<"p", "o", "s", "t">>, MethodPost, <<"P", "o", "s", "T">>, MethodGet,
    <<"G", "E", "T">>, <<"p", "u", "t">>, <<" ", "p", "o", "s", "t">> }

\* the attributes of a selected form: attributes without a value are gone
SelectedFormAttrs ==
  UNION { [ks -> FormActions \cup FormMethods \cup {IdF}] : ks \in SUBSET {"id", "action", "method"} }

InitSubmit ==
  /\ \E a \in SelectedFormAttrs, u \in PortalUrls,
        p \in {EmptyDict, [k \in {NameS} |-> ValueA], [k \in {NameS, NameM} |-> <<>>]} :
       /\ \A k \in DOMAIN a : \/ k = "id" /\ a[k] = IdF
                              \/ k = "action" /\ a[k] \in FormActions
                              \/ k = "method" /\ a[k] \in FormMethods
       /\ sargs = [portal_url |-> u, form_attrs |-> a, payload |-> p]
  /\ spc = "call"
  /\ srequests = <<>>
  /\ sresult = TransportFailure
  /\ LoginIdle
  /\ ParserIdle
  /\ MergeIdle
  /\ BayernIdle
  /\ TelekomIdle

SubmitLoginForm ==
  /\ spc = "call"
  /\ \E response \in SubmitResponses :
       /\ srequests' = Append(srequests, SubmitRequest(sargs.portal_url, sargs.form_attrs,
                                                       sargs.payload, response))
       /\ sresult' = response
  /\ spc' = "done"
  /\ UNCHANGED <<sargs, loginVars, parserVars, mergeVars, bayernVars, telekomVars>>

NextSubmit == SubmitLoginForm

SpecSubmit == InitSubmit /\ [][NextSubmit]_vars

\* ------------------------------------------------------------------------
\* Claims about submit_login_form (SpecSubmit)
\* ------------------------------------------------------------------------
\* the action the request goes to: the form's action attribute without the
\* "?" characters it ends with, empty when the form has no action attribute
ActionTarget(attrs) ==
  IF "action" \notin DOMAIN attrs THEN <<>>
  ELSE LET a == attrs["action"]
           keep == {k \in 0..Len(a) : k = 0 \/ a[k] # "?"}
           n == CHOOSE k \in keep : \A j \in keep : j <= k
       IN  SubSeq(a, 1, n)

MethodIsPost(attrs) ==
  /\ "method" \in DOMAIN attrs
  /\ Lower(attrs["method"]) = <<"p", "o", "s", "t">>

\* C12: submit_login_form issues exactly one request; it goes to the form's
\* action (trailing "?" removed, empty when absent) resolved against the
\* portal URL; it is a POST with the payload as the body when the method
\* attribute is "post" in any letter case, and a GET with the payload as the
\* query string in every other case.
C12_SubmitRequest ==
  /\ spc = "call" => srequests = <<>>
  /\ spc = "done" =>
       /\ Len(srequests) = 1
       /\ LET r == srequests[1]
          IN  /\ r.kind = "submit"
              /\ r.url = [base |-> sargs.portal_url, ref |-> ActionTarget(sargs.form_attrs)]
              /\ r.method = IF MethodIsPost(sargs.form_attrs) THEN "POST" ELSE "GET"
              /\ r.data = IF MethodIsPost(sargs.form_attrs)
                          THEN [body |-> sargs.payload, params |-> EmptyDict]
                          ELSE [body |-> EmptyDict, params |-> sargs.payload]

C12_Witness ==
  /\ spc = "done"
  /\ sargs.form_attrs = [k \in {"action", "method"} |->
                           IF k = "action" THEN ActionLogin ELSE <<"P", "o", "s", "T">>]
  /\ sargs.payload = [k \in {NameS} |-> ValueA]
  /\ srequests[1].method = "POST"
  /\ srequests[1].url.ref = <<"/", "l", "o", "g", "i", "n">>

\* ------------------------------------------------------------------------
\* bayernwlan.py: parse_login_form and merge_form_data as a process.  The
\* parser defines no handle_endtag and no handle_data: HTMLParser's own do
\* nothing.
\* ------------------------------------------------------------------------
BayernStartTags ==
  { StartTag("form", << <<"id", Bayern_FORM_ID>> >>),
    StartTag("form", << <<"action", Bayern_FORM_ACTION_CONTAINS \o <<"?">> >>,
                        <<"method", MethodPost>> >>),
    StartTag("form", << <<"id", IdX>>, <<"action", ActionOther>> >>),
    StartTag("form", << <<"action", NoneStr>> >>),
    StartTag("input", << <<"name", NameS>>, <<"type", NoneStr>> >>),
    StartTag("button", <<>>) }
    \cup InputStartTags

BayernUrls ==
  PortalUrls \cup { [base |-> "portal", query |-> << << <<"sessionID">>, ValueB >> >>] }

\* the names of the <input> start tags fed while a matching form is open
\* (a form is open from a <form> start tag satisfying the match rule to the
\* next form end tag), and the kind of the token fed last
BayernHistStartTag(h, t) ==
  LET attrs_dict == AttrsDict(t.attrs) IN
  IF t.tag = "form" THEN
    IF FormRule(BayernArgs, attrs_dict)
    THEN [h EXCEPT !.in_form = TRUE, !.inside = Append(@, {}), !.last = "start"]
    ELSE [h EXCEPT !.last = "start"]
  ELSE IF t.tag = "input" /\ h.in_form /\ "name" \in DOMAIN attrs_dict
  THEN [h EXCEPT !.inside[Len(h.inside)] = @ \cup {attrs_dict["name"]}, !.last = "start"]
  ELSE [h EXCEPT !.last = "start"]

InitBayern ==
  /\ bparser = BayernNewParser(Bayern_FORM_ID, Bayern_FORM_ACTION_CONTAINS)
  /\ bpc = "feed"
  /\ b_events = 0
  /\ bparsed = BayernNoParse
  /\ bpayload = EmptyDict
  /\ bhist = NoBayernHist
  /\ LoginIdle
  /\ ParserIdle
  /\ MergeIdle
  /\ SubmitIdle
  /\ TelekomIdle

BayernFeedStartTag ==
  /\ bpc = "feed"
  /\ bparser.error = "none"
  /\ b_events < MaxEvents
  /\ \E t \in BayernStartTags :
       /\ bparser' = BayernHandleStartTag(bparser, t.tag, t.attrs)
       /\ bhist' = BayernHistStartTag(bhist, t)
  /\ b_events' = b_events + 1
  /\ UNCHANGED <<bpc, bparsed, bpayload, loginVars, parserVars, mergeVars, submitVars,
                 telekomVars>>

BayernFeedEndTag ==
  /\ bpc = "feed"
  /\ bparser.error = "none"
  /\ b_events < MaxEvents
  /\ \E t \in EndTags :
       bhist' = IF t.tag = "form" THEN [bhist EXCEPT !.in_form = FALSE, !.last = "end"]
                ELSE [bhist EXCEPT !.last = "end"]
  /\ b_events' = b_events + 1
  /\ UNCHANGED <<bparser, bpc, bparsed, bpayload, loginVars, parserVars, mergeVars,
                 submitVars, telekomVars>>

BayernFeedData ==
  /\ bpc = "feed"
  /\ bparser.error = "none"
  /\ b_events < MaxEvents
  /\ b_events' = b_events + 1
  /\ bhist' = [bhist EXCEPT !.last = "data"]
  /\ UNCHANGED <<bparser, bpc, bparsed, bpayload, loginVars, parserVars, mergeVars,
                 submitVars, telekomVars>>

BayernParseLoginForm ==
  /\ bpc = "feed"
  /\ bparsed' = BayernSelectForm(bparser)
  /\ bpc' = IF bparsed'.raised = "none" THEN "merge" ELSE "done"
  /\ UNCHANGED <<bparser, b_events, bpayload, bhist, loginVars, parserVars, mergeVars,
                 submitVars, telekomVars>>

BayernMergeFormData ==
  /\ bpc = "merge"
  /\ \E u \in BayernUrls :
       bpayload' = Bayern_merge_form_data(bparsed.form_inputs, u, Bayern_DEFAULT_FORM_FIELDS)
  /\ bpc' = "done"
  /\ UNCHANGED <<bparser, b_events, bparsed, bhist, loginVars, parserVars, mergeVars,
                 submitVars, telekomVars>>

NextBayern ==
  \/ BayernFeedStartTag
  \/ BayernFeedEndTag
  \/ BayernFeedData
  \/ BayernParseLoginForm
  \/ BayernMergeFormData

SpecBayern == InitBayern /\ [][NextBayern]_vars

\* ------------------------------------------------------------------------
\* Claims about the bayernwlan.py scanner (SpecBayern)
\* ------------------------------------------------------------------------
\* C19: the input mapping of a form holds only names of <input> start tags
\* fed while that form was open, so an <input> after the form's end tag is
\* not recorded; and every key of the payload is such a name of the first
\* matching form, a default field or a configured query field.
C19_EndTagClosesForm ==
  /\ \A i \in 1..Len(bparser.inputs) : DOMAIN bparser.inputs[i] \subseteq bhist.inside[i]
  /\ (bpc = "done" /\ bparsed.raised = "none")
       => DOMAIN bpayload \subseteq
            bhist.inside[1] \cup DOMAIN Bayern_DEFAULT_FORM_FIELDS
              \cup {Bayern_QUERY_FIELDS_FROM_PORTAL_URL[i] :
                      i \in 1..Len(Bayern_QUERY_FIELDS_FROM_PORTAL_URL)}

\* ------------------------------------------------------------------------
\* telekom.py's main() next to a CaptivePortalClient constructed with
\* telekom.py's constants: login() runs first, then main() runs against the
\* same network, its n-th request getting the response login()'s n-th
\* request got (any response once it issues more requests than login() did)
\* ------------------------------------------------------------------------
TelekomConfig ==
  [probe_expected_status |-> Telekom_PROBE_EXPECTED_STATUS,
   form_id |-> Telekom_FORM_ID,
   form_action_contains |-> Telekom_FORM_ACTION_CONTAINS,
   button_text_contains |-> Telekom_BUTTON_TEXT_CONTAINS,
   already_online_marker |-> Telekom_ALREADY_ONLINE_TEXT_CONTAINS,
   default_form_fields |-> Telekom_DEFAULT_FORM_FIELDS,
   query_fields_from_url |-> Telekom_QUERY_FIELDS_FROM_PORTAL_URL]

InitTelekom ==
  /\ cfg = TelekomConfig
  /\ prev = "none"
  /\ pc = "idle"
  /\ invocation = 0
  /\ session = 0
  /\ requests = <<>>
  /\ probe_response = TransportFailure
  /\ submit_response = TransportFailure
  /\ portal_url = NoUrl
  /\ portal_html = <<>>
  /\ form_attrs = EmptyDict
  /\ form_inputs = EmptyDict
  /\ payload = EmptyDict
  /\ result = NoResult
  /\ raised = NoRaise
  /\ ParserIdle
  /\ MergeIdle
  /\ SubmitIdle
  /\ BayernIdle
  /\ TelekomIdle

TelekomResponses(S) ==
  IF Len(trequests) < Len(requests) THEN {requests[Len(trequests) + 1].response} ELSE S

TelekomRequest(kind, method, url, allow_redirects, data, response) ==
  [kind |-> kind, method |-> method, url |-> url,
   allow_redirects |-> allow_redirects, data |-> data, session |-> tlocal.session,
   response |-> response]

\* main() is called: session = requests.Session()
TelekomMain ==
  /\ pc = "done"
  /\ tpc = "idle"
  /\ tlocal' = [NoTelekomLocal EXCEPT !.session = session + 1]
  /\ tpc' = "probe_initial"
  /\ UNCHANGED <<trequests, tresult, traised, loginVars, parserVars, mergeVars,
                 submitVars, bayernVars>>

\* if has_internet(session): return 0
TelekomCheckInternetInitial ==
  /\ tpc = "probe_initial"
  /\ \E response \in TelekomResponses(ProbeResponses) :
       /\ trequests' = Append(trequests, TelekomRequest("probe", "GET", "probe_url", FALSE,
                                                        NoData, response))
       /\ IF Telekom_has_internet(response)
          THEN tresult' = 0 /\ tpc' = "done"
          ELSE tresult' = tresult /\ tpc' = "fetch_probe"
  /\ UNCHANGED <<tlocal, traised, loginVars, parserVars, mergeVars, submitVars, bayernVars>>

\* fetch_portal_page: the GET of PROBE_URL with redirects followed
TelekomFetchPortalProbe ==
  /\ tpc = "fetch_probe"
  /\ \E response \in TelekomResponses(PageResponses) :
       /\ trequests' = Append(trequests, TelekomRequest("fetch", "GET", "probe_url", TRUE,
                                                        NoData, response))
       /\ IF ~response.error /\ IsHtmlPage(response)
          THEN /\ tlocal' = [tlocal EXCEPT !.portal_url = response.url,
                                           !.portal_html = response.text]
               /\ tpc' = "check_marker"
          ELSE /\ UNCHANGED tlocal
               /\ tpc' = "fetch_fallback"
  /\ UNCHANGED <<tresult, traised, loginVars, parserVars, mergeVars, submitVars, bayernVars>>

\* fetch_portal_page: the GET of PORTAL_FALLBACK_URL
TelekomFetchPortalFallback ==
  /\ tpc = "fetch_fallback"
  /\ \E response \in TelekomResponses(PageResponses) :
       /\ trequests' = Append(trequests, TelekomRequest("fetch", "GET", "fallback_url", TRUE,
                                                        NoData, response))
       /\ IF response.error
          THEN /\ traised' = [kind |-> "TransportError", stage |-> "fetch"]
               /\ tpc' = "done"
               /\ UNCHANGED tlocal
          ELSE /\ tlocal' = [tlocal EXCEPT !.portal_url = response.url,
                                           !.portal_html = response.text]
               /\ tpc' = "check_marker"
               /\ UNCHANGED traised
  /\ UNCHANGED <<tresult, loginVars, parserVars, mergeVars, submitVars, bayernVars>>

\* if portal_indicates_online(portal_html): return 0
TelekomPortalIndicatesOnline ==
  /\ tpc = "check_marker"
  /\ IF Telekom_portal_indicates_online(tlocal.portal_html)
     THEN tresult' = 0 /\ tpc' = "done"
     ELSE tresult' = tresult /\ tpc' = "parse"
  /\ UNCHANGED <<trequests, tlocal, traised, loginVars, parserVars, mergeVars, submitVars,
                 bayernVars>>

\* form_attrs, form_inputs = parse_login_form(portal_html)
TelekomParseLoginForm ==
  /\ tpc = "parse"
  /\ LET r == Telekom_parse_login_form(tlocal.portal_html)
     IN  IF r.raised # "none"
         THEN /\ traised' = [kind |-> r.raised, stage |-> "parse"]
              /\ tpc' = "done"
              /\ UNCHANGED tlocal
         ELSE /\ tlocal' = [tlocal EXCEPT !.form_attrs = r.form_attrs,
                                          !.form_inputs = r.form_inputs]
              /\ tpc' = "build"
              /\ UNCHANGED traised
  /\ UNCHANGED <<trequests, tresult, loginVars, parserVars, mergeVars, submitVars, bayernVars>>

\* payload = merge_form_data(form_inputs, portal_url, DEFAULT_FORM_FIELDS)
TelekomMergeFormData ==
  /\ tpc = "build"
  /\ tlocal' = [tlocal EXCEPT !.payload =
                  Telekom_merge_form_data(tlocal.form_inputs, tlocal.portal_url,
                                          Telekom_DEFAULT_FORM_FIELDS)]
  /\ tpc' = "submit"
  /\ UNCHANGED <<trequests, tresult, traised, loginVars, parserVars, mergeVars, submitVars,
                 bayernVars>>

\* response = submit_login_form(session, portal_url, form_attrs, payload)
TelekomSubmitLoginForm ==
  /\ tpc = "submit"
  /\ \E response \in TelekomResponses(SubmitResponses) :
       /\ trequests' = Append(trequests,
                              [SubmitRequest(tlocal.portal_url, tlocal.form_attrs,
                                             tlocal.payload, response)
                                 EXCEPT !.session = tlocal.session])
       /\ IF response.error
          THEN /\ traised' = [kind |-> "TransportError", stage |-> "submit"]
               /\ tpc' = "done"
               /\ UNCHANGED tlocal
          ELSE /\ tlocal' = [tlocal EXCEPT !.submit_response = response]
               /\ tpc' = "probe_final"
               /\ UNCHANGED traised
  /\ UNCHANGED <<tresult, loginVars, parserVars, mergeVars, submitVars, bayernVars>>

\* if has_internet(session): return 0 ... return 1
TelekomCheckInternetFinal ==
  /\ tpc = "probe_final"
  /\ \E response \in TelekomResponses(ProbeResponses) :
       /\ trequests' = Append(trequests, TelekomRequest("probe", "GET", "probe_url", FALSE,
                                                        NoData, response))
       /\ tresult' = IF Telekom_has_internet(response) THEN 0 ELSE 1
  /\ tpc' = "done"
  /\ UNCHANGED <<tlocal, traised, loginVars, parserVars, mergeVars, submitVars, bayernVars>>

\* the client's login() is not called again once main() has started
TelekomClientLogin == tpc = "idle" /\ Login

NextTelekom ==
  \/ TelekomClientLogin
  \/ CheckInternetInitial
  \/ FetchPortalProbe
  \/ FetchPortalFallback
  \/ IsOnlinePage
  \/ ParseForm
  \/ BuildPayload
  \/ Submit
  \/ CheckInternetFinal
  \/ TelekomMain
  \/ TelekomCheckInternetInitial
  \/ TelekomFetchPortalProbe
  \/ TelekomFetchPortalFallback
  \/ TelekomPortalIndicatesOnline
  \/ TelekomParseLoginForm
  \/ TelekomMergeFormData
  \/ TelekomSubmitLoginForm
  \/ TelekomCheckInternetFinal

SpecTelekom == InitTelekom /\ [][NextTelekom]_vars

\* ------------------------------------------------------------------------
\* Claims about telekom.py (SpecTelekom)
\* ------------------------------------------------------------------------
\* a request as it is sent: everything but the session it is sent on and
\* the response it gets
Sent(r) == [kind |-> r.kind, method |-> r.method, url |-> r.url,
            allow_redirects |-> r.allow_redirects, data |-> r.data]

\* C20: against the same responses, main() of telekom.py issues the
\* requests login() issued, one by one with the same method, URL, redirect
\* handling and payload, and it ends as login() did: after the same number of
\* requests, with the same payload built, the same return code and the same
\* error.
C20_TelekomEquivalent ==
  /\ Len(trequests) <= Len(requests)
  /\ \A i \in 1..Len(trequests) : Sent(trequests[i]) = Sent(requests[i])
  /\ tpc = "done"
       => /\ Len(trequests) = Len(requests)
          /\ tlocal.payload = payload
          /\ tresult = result
          /\ traised = raised

C20_Witness ==
  /\ tpc = "done"
  /\ Len(trequests) = 5
  /\ trequests[4].method = "POST"
  /\ trequests[4].data.body =
       [k \in {NameS, <<"sessionId">>} |-> IF k = NameS THEN ValueA ELSE ValueB]
  /\ tresult = 0

\* ------------------------------------------------------------------------
\* Claims about CaptivePortalClient.login (Spec)
\* ------------------------------------------------------------------------
\* Online, as the specification defines it: a response was received and its
\* status code is the configured expected code
Online(response) ==
  ~response.error /\ response.status_code = cfg.probe_expected_status

LastRequest == requests[Len(requests)]

Kinds == {requests[i].kind : i \in 1..Len(requests)}

\* C1: if the initial probe returns the expected status, login returns 0 and
\* the initial probe is the only request of the invocation: nothing is
\* fetched, parsed, built or submitted, and only a new invocation can follow.
C1_OnlineIsNoOp ==
  [][ /\ (pc = "probe_initial" /\ Online(probe_response'))
        => /\ pc' = "done"
           /\ result' = 0
           /\ raised' = NoRaise
           /\ Len(requests') = 1
           /\ requests'[1].kind = "probe"
           /\ UNCHANGED <<portal_url, portal_html, form_attrs, form_inputs, payload>>
      /\ pc = "done" => pc' = "probe_initial" ]_vars

C1_Witness ==
  /\ pc = "done"
  /\ result = 0
  /\ Len(requests) = 1
  /\ Online(probe_response)
  /\ cfg.probe_expected_status = 200

\* C2: once the submission got a response, whatever its status, login is
\* not aborted: the final probe runs, login returns 0 if that probe is
\* Online and 1 otherwise, and login returns 1 on no other path.
C2_FinalProbeDecides ==
  /\ ~submit_response.error
       => /\ pc \in {"probe_final", "done"}
          /\ raised = NoRaise
          /\ "submit" \in Kinds
  /\ pc = "probe_final" => ENABLED CheckInternetFinal
  /\ (pc = "done" /\ ~submit_response.error)
       => /\ LastRequest.kind = "probe"
          /\ requests[Len(requests) - 1].kind = "submit"
          /\ LastRequest.response = probe_response
          /\ result = IF Online(probe_response) THEN 0 ELSE 1
  /\ (pc = "done" /\ result = 1)
       => /\ ~submit_response.error
          /\ ~Online(probe_response)

C2_Witness ==
  /\ pc = "done"
  /\ ~submit_response.error
  /\ submit_response.status_code = 403
  /\ LastRequest.kind = "probe"
  /\ Online(probe_response)
  /\ result = 0

\* C3 as stated: past the marker check of a fetched page in which the
\* configured already-online marker occurs as a case-insensitive substring,
\* login has returned 0 with no submission and no final probe.
MarkerOccurs ==
  /\ Truthy(cfg.already_online_marker)
  /\ Contains(Lower(HtmlText(portal_html)), Lower(cfg.already_online_marker))

PageChecked ==
  /\ pc \in {"parse", "build", "submit", "probe_final", "done"}
  /\ Len(requests) >= 2
  /\ raised.stage # "fetch"

ReturnedOnMarker ==
  /\ pc = "done"
  /\ result = 0
  /\ raised = NoRaise
  /\ "submit" \notin Kinds
  /\ LastRequest.kind = "fetch"

C3_Original == (PageChecked /\ MarkerOccurs) => ReturnedOnMarker

\* C3 (amended): when the initial probe is not Online and the configured
\* already-online marker is not blank (it has a character other than
\* whitespace) and occurs as a case-insensitive substring of the fetched
\* page, login returns 0 with no submission and no final probe, whether or
\* not the page has a matching form.
C3_MarkerReturnsOnline ==
  (PageChecked /\ MarkerOccurs /\ Strip(cfg.already_online_marker) # <<>>)
    => ReturnedOnMarker

C3_Witness ==
  /\ PageChecked
  /\ MarkerOccurs
  /\ cfg.already_online_marker = <<" ", "O", "k">>
  /\ portal_html = PageOnlineForm
  /\ cfg.form_id = IdF
  /\ ReturnedOnMarker

\* C8 as stated: login ends with a raised error only for NoMatchingForm,
\* NoMatchingButton or a transport error of the portal fetch; otherwise,
\* failures of the submission included, it returns 0 or 1.
C8_Original ==
  pc = "done" =>
    \/ raised = NoRaise /\ result \in {0, 1}
    \/ result = NoResult /\ raised.stage = "parse"
         /\ raised.kind \in {"NoMatchingForm", "NoMatchingButton"}
    \/ result = NoResult /\ raised = [kind |-> "TransportError", stage |-> "fetch"]

\* C8 (amended): login ends with a raised error only for NoMatchingForm,
\* NoMatchingButton or a transport error of the portal fetch or of the
\* submission request; in every other case it returns 0 or 1, decided by a
\* connectivity probe or, for 0, by the already-online marker.
C8_FatalErrors ==
  pc = "done" =>
    \/ /\ raised = NoRaise
       /\ \/ /\ LastRequest.kind = "probe"
             /\ result = IF Online(LastRequest.response) THEN 0 ELSE 1
          \/ ReturnedOnMarker /\ is_online_page(portal_html)
    \/ result = NoResult /\ raised.stage = "parse"
         /\ raised.kind \in {"NoMatchingForm", "NoMatchingButton"}
    \/ result = NoResult /\ raised = [kind |-> "TransportError", stage |-> "fetch"]
         /\ LastRequest.kind = "fetch" /\ LastRequest.response.error
    \/ result = NoResult /\ raised = [kind |-> "TransportError", stage |-> "submit"]
         /\ LastRequest.kind = "submit" /\ LastRequest.response.error

C8_Witness ==
  /\ pc = "done"
  /\ raised = [kind |-> "TransportError", stage |-> "submit"]
  /\ result = NoResult
  /\ LastRequest.kind = "submit"

\* C9: has_internet never raises on a transport failure, it answers "not
\* online"; it answers Online exactly when a response with the expected
\* status came; and login goes on the same way after a transport failure as
\* after a response with another status, at the initial and the final probe.
C9_ProbeNeverRaises ==
  /\ raised.stage # "probe"
  /\ \A r \in ProbeResponses :
       has_internet(r, cfg.probe_expected_status) <=> Online(r)
  /\ (Len(requests) = 1 /\ pc # "probe_initial")
       => IF Online(probe_response)
          THEN pc = "done" /\ result = 0
          ELSE pc = "fetch_probe" /\ result = NoResult /\ raised = NoRaise
  /\ (pc = "done" /\ Len(requests) > 1 /\ LastRequest.kind = "probe")
       => /\ raised = NoRaise
          /\ result = IF Online(probe_response) THEN 0 ELSE 1

C9_Witness ==
  /\ pc = "fetch_probe"
  /\ Len(requests) = 1
  /\ probe_response.error
  /\ raised = NoRaise

\* C10: fetch_portal_page returns the final URL and body of the GET of the
\* probe URL exactly when that GET succeeds with an HTML content type and a
\* non-empty body; otherwise it issues exactly one GET of the fallback URL
\* and returns its URL and body whatever they are, and a transport error of
\* that GET propagates.
FetchDone == Len(requests) >= 2 /\ pc # "fetch_fallback"

ProbePageUsable(response) ==
  /\ ~response.error
  /\ response.text # <<>>
  /\ response.content_type # NoneStr
  /\ Contains(response.content_type, TextHtml)

NumFetches == Cardinality({i \in 1..Len(requests) : requests[i].kind = "fetch"})

C10_FetchFallback ==
  /\ Len(requests) >= 2
       => /\ requests[2].kind = "fetch"
          /\ requests[2].url = "probe_url"
          /\ requests[2].allow_redirects
          /\ pc = "fetch_fallback" => ~ProbePageUsable(requests[2].response)
  /\ FetchDone =>
       IF ProbePageUsable(requests[2].response)
       THEN /\ NumFetches = 1
            /\ portal_url = requests[2].response.url
            /\ portal_html = requests[2].response.text
            /\ raised.stage # "fetch"
       ELSE /\ NumFetches = 2
            /\ requests[3].kind = "fetch"
            /\ requests[3].url = "fallback_url"
            /\ IF requests[3].response.error
               THEN /\ pc = "done"
                    /\ result = NoResult
                    /\ raised = [kind |-> "TransportError", stage |-> "fetch"]
                    /\ Len(requests) = 3
               ELSE /\ portal_url = requests[3].response.url
                    /\ portal_html = requests[3].response.text
                    /\ raised.stage # "fetch"

C10_Witness ==
  /\ pc = "check_marker"
  /\ Len(requests) = 3
  /\ requests[2].response.error
  /\ ~ProbePageUsable(requests[3].response)
  /\ portal_html = requests[3].response.text
  /\ portal_html # <<>>

\* ------------------------------------------------------------------------
\* Claims about parse_login_form (SpecParser)
\* ------------------------------------------------------------------------
\* the configured button text as the scanner compares it: lowercased, trimmed
ButtonRuleText == Strip(Lower(OrElse(pargs.button_text_contains, <<>>)))

ButtonRuleConfigured == ButtonRuleText # <<>>

\* C5: a document in which no <form> start tag satisfies the match rule makes
\* parse_login_form fail with NoMatchingForm, with or without a button-text
\* rule, and so does every document when no form rule is configured.
C5_NoMatchingForm ==
  (ppc = "done" /\ rule_forms = 0) => parsed.raised = "NoMatchingForm"

C5_Witness ==
  /\ ppc = "done"
  /\ rule_forms = 0
  /\ n_events >= 2
  /\ Truthy(pargs.form_id)
  /\ ButtonRuleConfigured
  /\ parsed.raised = "NoMatchingForm"

\* C6: with a button-text rule configured and at least one form matching the
\* form rule, if no matching form's accumulated submit text contains the
\* configured text then parse_login_form fails with NoMatchingButton (it does
\* not return the first matching form).
C6_NoMatchingButton ==
  ( /\ ppc = "done"
    /\ ButtonRuleConfigured
    /\ rule_forms > 0
    /\ \A i \in 1..Len(parser.submit_text) :
         ~Contains(Lower(parser.submit_text[i]), ButtonRuleText) )
  => parsed.raised = "NoMatchingButton"

C6_Witness ==
  /\ ppc = "done"
  /\ ButtonRuleConfigured
  /\ rule_forms > 0
  /\ \E i \in 1..Len(parser.submit_text) : parser.submit_text[i] # <<>>
  /\ \A i \in 1..Len(parser.submit_text) :
       ~Contains(Lower(parser.submit_text[i]), ButtonRuleText)
  /\ parsed.raised = "NoMatchingButton"

\* C7: when selection succeeds the returned form is the lowest-index matching
\* form (no button-text rule) or the lowest-index matching form whose
\* submit-match flag is true (rule configured), and the returned inputs are
\* the ones recorded under that same index.
FlaggedIndices == {i \in 0..(Len(parser.forms) - 1) : parser.form_submit_match[i + 1]}

C7_Expected ==
  IF ButtonRuleConfigured
  THEN CHOOSE i \in FlaggedIndices : \A j \in FlaggedIndices : i <= j
  ELSE 0

C7_LowestIndexSelected ==
  (ppc = "done" /\ parsed.raised = "none") =>
    /\ ButtonRuleConfigured => FlaggedIndices # {}
    /\ C7_Expected < Len(parser.forms)
    /\ parsed.selected_index = C7_Expected
    /\ parsed.form_attrs = WithoutNone(parser.forms[C7_Expected + 1])
    /\ parsed.form_inputs = parser.inputs[C7_Expected + 1]

C7_Witness ==
  /\ ppc = "done"
  /\ parsed.raised = "none"
  /\ ButtonRuleConfigured
  /\ Len(parser.forms) >= 2
  /\ ~parser.form_submit_match[1]
  /\ parsed.selected_index = 1
  /\ parsed.form_inputs # parser.inputs[1]

\* ------------------------------------------------------------------------
\* Claims about repeated invocations, the session and the order of the steps
\* (Spec)
\* ------------------------------------------------------------------------
\* C11: login never changes the client's configuration fields; a login()
\* that follows another one starts from the same local state as the first
\* (nothing fetched, parsed, built, submitted, returned or raised; an empty
\* request list; a session of its own); and a login() that follows an
\* invocation which found the network online, and finds it online again,
\* issues exactly one request, the initial probe, and returns 0.
C11_RepeatedInvocation ==
  [][ /\ cfg' = cfg
      /\ (pc = "done" /\ pc' # "done")
           => /\ pc' = "probe_initial"
              /\ requests' = <<>>
              /\ session' # session
              /\ probe_response' = TransportFailure
              /\ submit_response' = TransportFailure
              /\ portal_url' = NoUrl
              /\ portal_html' = <<>>
              /\ form_attrs' = EmptyDict
              /\ form_inputs' = EmptyDict
              /\ payload' = EmptyDict
              /\ result' = NoResult
              /\ raised' = NoRaise
      /\ (pc = "probe_initial" /\ prev = "online" /\ Online(probe_response'))
           => /\ pc' = "done"
              /\ result' = 0
              /\ raised' = NoRaise
              /\ Len(requests') = 1
              /\ requests'[1].kind = "probe" ]_vars

C11_Witness ==
  /\ invocation = 2
  /\ prev = "online"
  /\ pc = "done"
  /\ result = 0
  /\ raised = NoRaise
  /\ Len(requests) = 1
  /\ Online(probe_response)

\* C13: every request of an invocation is issued on that invocation's
\* session, the session changes only when login() is called, and the
\* session of a new invocation is none of the earlier ones.
C13_OneSessionPerInvocation ==
  [][ /\ \A i \in 1..Len(requests') : requests'[i].session = session'
      /\ invocation' # invocation => session' > session
      /\ session' # session
           => /\ invocation' # invocation
              /\ pc' = "probe_initial"
              /\ requests' = <<>> ]_vars

C13_Witness ==
  /\ invocation = 2
  /\ pc = "done"
  /\ Len(requests) = 5
  /\ requests[4].kind = "submit"
  /\ \A i \in 1..5 : requests[i].session = 2

\* the position of a step in login()
StepRank(p) ==
  CASE p = "idle" -> 0
    [] p = "probe_initial" -> 1
    [] p = "fetch_probe" -> 2
    [] p = "fetch_fallback" -> 3
    [] p = "check_marker" -> 4
    [] p = "parse" -> 5
    [] p = "build" -> 6
    [] p = "submit" -> 7
    [] p = "probe_final" -> 8
    [] p = "done" -> 9

\* the position of the i-th request of the log among the five requests
RequestRank(i) ==
  LET r == requests[i]
  IN  CASE r.kind = "probe" /\ i = 1 -> 1
        [] r.kind = "fetch" /\ r.url = "probe_url" -> 2
        [] r.kind = "fetch" /\ r.url = "fallback_url" -> 3
        [] r.kind = "submit" -> 4
        [] r.kind = "probe" /\ i > 1 -> 5
        [] OTHER -> 0

RequestsInOrder ==
  /\ Len(requests) <= 5
  /\ \A i \in 1..Len(requests) : RequestRank(i) > 0
  /\ \A i \in 1..Len(requests) : \A j \in 1..Len(requests) :
       i < j => RequestRank(i) < RequestRank(j)
  /\ \A i \in 1..Len(requests) :
       /\ requests[i].kind = "submit"
            => /\ i > 1
               /\ requests[i-1].kind = "fetch"
               /\ ~requests[i-1].response.error
               /\ portal_html = requests[i-1].response.text
       /\ RequestRank(i) = 5
            => /\ requests[i-1].kind = "submit"
               /\ ~requests[i-1].response.error

\* C18: a step of login() is followed only by a later step of the same
\* invocation or by a new invocation, so no step runs twice and nothing is
\* retried; the requests are at most five, in the order initial probe,
\* fetch of the probe URL, fetch of the fallback URL, submission, final
\* probe; the submission follows a fetch that returned the page in which a
\* form was selected, and the final probe follows a submission that got a
\* response.
C18_StepOrder ==
  [][ /\ \/ StepRank(pc') > StepRank(pc)
         \/ pc \in {"idle", "done"} /\ pc' = "probe_initial"
      /\ pc' = "build" => pc = "parse" /\ raised' = NoRaise
      /\ pc' = "submit" => pc = "build"
      /\ (Len(requests') > Len(requests) /\ requests'[Len(requests')].kind = "submit")
           => pc = "submit"
      /\ RequestsInOrder' ]_vars

C18_Witness ==
  /\ pc = "done"
  /\ Len(requests) = 5
  /\ requests[3].url = "fallback_url"
  /\ requests[4].kind = "submit"
  /\ requests[5].kind = "probe"

\* ------------------------------------------------------------------------
\* Claims about what the scanner records (SpecParser)
\* ------------------------------------------------------------------------
\* C14 as stated: the input mapping of every form holds, for each name, the
\* value of the first <input> of that name (type other than "submit") fed
\* inside the form.
C14_Original == parser.inputs = hist.first_values

\* C14: the input mapping of every form holds, for each name, the value of
\* the last <input> of that name (type other than "submit") fed inside the
\* form: a later occurrence replaces the value of an earlier one.
C14_LastOccurrenceWins == parser.inputs = hist.last_values

C14_Witness ==
  /\ ppc = "done"
  /\ Len(parser.inputs) = 1
  /\ NameS \in DOMAIN parser.inputs[1]
  /\ hist.first_values[1][NameS] = ValueA
  /\ parser.inputs[1][NameS] = ValueB
  /\ parsed.raised = "none"
  /\ parsed.form_inputs[NameS] = ValueB

\* C15: after the whole document is fed with a button-text rule configured,
\* the flag of every recorded form is true exactly when the configured text
\* occurs, ignoring case, in the concatenation of all text the form's submit
\* controls contributed.
C15_FlagIffAccumulatedText ==
  (ppc = "done" /\ ButtonRuleConfigured)
    => \A i \in 1..Len(parser.forms) :
         parser.form_submit_match[i]
           <=> Contains(Lower(parser.submit_text[i]), ButtonRuleText)

\* C16: the text the code hands to the submit-text match of a form is the
\* text the specification's scanner accumulates for it: the value of every
\* <input> and the content of every <button> of type "submit" or "button"
\* (a <button> without type counting as "submit"), and nothing else.
C16_SubmitControlsContribute == parser.submit_text = hist.spec_text

\* C17: while no matching form is open (before the first one, and from a
\* form end tag to the next matching <form> start tag) no token changes any
\* form's input mapping or submit-match flag, and a form end tag leaves no
\* form active and no button text being captured.
C17_ClosedFormAccumulatesNothing ==
  [][ /\ (~hist.in_form /\ ~hist.in_form')
           => /\ parser'.inputs = parser.inputs
              /\ parser'.form_submit_match = parser.form_submit_match
              /\ parser'.capture_button_text_for_form = NoIndex
      /\ (last_event' = [kind |-> "end", tag |-> "form"] /\ n_events' # n_events)
           => /\ parser'.active_form = <<>>
              /\ parser'.active_form_index = NoIndex
              /\ parser'.capture_button_text_for_form = NoIndex ]_vars

C17_Witness ==
  /\ ~hist.in_form
  /\ rule_forms = 1
  /\ Len(parser.forms) = 1
  /\ NameS \in DOMAIN parser.inputs[1]
  /\ last_event = [kind |-> "start", tag |-> "input"]
  /\ n_events = 4

\* ------------------------------------------------------------------------
\* Claims about the scanner's bookkeeping (SpecParser).  The Python keys
\* 0 .. _form_counter-1 of inputs and form_submit_match are the positions
\* 1 .. form_counter of the sequences here.
\* ------------------------------------------------------------------------
\* the fields CaptivePortalFormParser holds (submit_text is history)
ScannerState(p) ==
  [ form_id |-> p.form_id,
    action_contains |-> p.action_contains,
    button_text_contains |-> p.button_text_contains,
    active_form |-> p.active_form,
    active_form_index |-> p.active_form_index,
    forms |-> p.forms,
    inputs |-> p.inputs,
    form_submit_match |-> p.form_submit_match,
    capture_button_text_for_form |-> p.capture_button_text_for_form,
    form_counter |-> p.form_counter ]

FedStep == n_events' # n_events

ScannerBookkeeping ==
  /\ Len(parser.forms) = parser.form_counter
  /\ DOMAIN parser.inputs = 1..parser.form_counter
  /\ DOMAIN parser.form_submit_match = 1..parser.form_counter
  /\ parser.form_counter = rule_forms
  /\ (parser.active_form # <<>>) <=> (parser.active_form_index # NoIndex)
  /\ parser.active_form_index # NoIndex
       => parser.active_form_index = parser.form_counter - 1
  /\ parser.capture_button_text_for_form # NoIndex
       => /\ parser.active_form # <<>>
          /\ parser.capture_button_text_for_form >= 0
          /\ parser.capture_button_text_for_form <= parser.active_form_index

IndicesIncrease ==
  /\ parser'.form_counter \in {parser.form_counter, parser.form_counter + 1}
  /\ parser'.form_counter = parser.form_counter + 1
       <=> (FedStep /\ rule_forms' = rule_forms + 1
              /\ last_event' = [kind |-> "start", tag |-> "form"])
  /\ parser'.form_counter = parser.form_counter + 1
       => /\ parser'.active_form_index = parser.form_counter
          /\ parser'.forms = Append(parser.forms, parser'.active_form[1])
          /\ parser'.inputs = Append(parser.inputs, EmptyDict)
          /\ parser'.form_submit_match = Append(parser.form_submit_match, FALSE)
  /\ parser'.form_counter = parser.form_counter
       => /\ parser'.forms = parser.forms
          /\ DOMAIN parser'.inputs = DOMAIN parser.inputs
          /\ DOMAIN parser'.form_submit_match = DOMAIN parser.form_submit_match

\* C21: after any sequence of start-tag, end-tag and text events the number
\* of recorded forms equals the form counter; the keys of inputs and of
\* form_submit_match are exactly the indices below the counter, each
\* assigned, in increasing order, at one <form> start tag satisfying the
\* match rule; a form is active exactly when an active index is set, and
\* that index is then the counter minus one; and button text is captured
\* only while a form is active, for an index not above the active one.
C21_ScannerBookkeeping == []ScannerBookkeeping /\ [][IndicesIncrease]_vars

C21_Witness ==
  /\ parser.form_counter = 2
  /\ parser.active_form_index = 1
  /\ parser.capture_button_text_for_form = 0
  /\ last_event = [kind |-> "start", tag |-> "input"]
  /\ parser.inputs[1] = EmptyDict
  /\ parser.inputs[2] # EmptyDict

ScannerUnchanged == ScannerState(parser') = ScannerState(parser)

\* C22: an end tag never changes the recorded forms, the input mappings or
\* the submit-match flags; an end tag other than </form> and </button>
\* leaves the whole scanner state unchanged, and so does a </form> or
\* </button> fed while no form is active; a <form> start tag that does not
\* satisfy the match rule, and an <input> start tag, a <button> start tag
\* or text fed while no matching form is active, leave the whole scanner
\* state unchanged.
C22_IgnoredEventsChangeNothing ==
  [][ FedStep =>
        /\ last_event'.kind = "end"
             => /\ parser'.forms = parser.forms
                /\ parser'.inputs = parser.inputs
                /\ parser'.form_submit_match = parser.form_submit_match
        /\ (last_event'.kind = "end" /\ last_event'.tag \notin {"form", "button"})
             => ScannerUnchanged
        /\ (last_event'.kind = "end" /\ ~hist.in_form) => ScannerUnchanged
        /\ (last_event' = [kind |-> "start", tag |-> "form"]
              /\ rule_forms' = rule_forms) => ScannerUnchanged
        /\ (last_event'.kind = "start" /\ last_event'.tag \in {"input", "button"}
              /\ ~hist.in_form) => ScannerUnchanged
        /\ (last_event'.kind = "data" /\ ~hist.in_form) => ScannerUnchanged ]_vars

C22_Witness ==
  /\ last_event = [kind |-> "end", tag |-> "div"]
  /\ n_events = 4
  /\ parser.active_form # <<>>
  /\ parser.capture_button_text_for_form = 0
  /\ NameS \in DOMAIN parser.inputs[1]

====
